---- MODULE Spec2Model ----
(***************************************************************************)
(* A model of webnis: the binding daemon (webnis-bind) with its sessions,  *)
(* its shared HTTPS client pool and its retry/failover engine, and the     *)
(* line codecs of the map server (webnis-server) and of the daemon's       *)
(* response reshaper.                                                      *)
(*                                                                         *)
(* Strings of the program are sequences of one-character strings, so that  *)
(* splitting, lower-casing and number parsing are computed as the code     *)
(* computes them.                                                          *)
(***************************************************************************)
EXTENDS Integers, Sequences, FiniteSets, TLC

VARIABLES
    config,       \* daemon configuration: servers.len(), restrict_* flags
    http_client,  \* the shared pool behind the mutex: [client, seqno]
    ctx,          \* per session: peer credentials [uid, gid]
    eof,          \* per session: the atomic eof flag of its Context
    reader,       \* per session: state of the spawned reader task
    nread,        \* per session: number of request lines read so far
    chan,         \* per session: the mpsc channel from reader to processing
    pc,           \* per session: where its processing future stands
    req,          \* per session: the request in flight
    resp,         \* per session: the response line its future resolved to
    out,          \* per session: for each response line written, its request
    hist,         \* per session: what the request in flight has done so far
    env,          \* the environment of a run: sessions that connect, lines sent
    codec,        \* the line -> JSON -> line pipeline of one backend record
    pam,          \* one authentication: PAM adapter, daemon, map server
    nss           \* one thread of a process that uses the NSS adapter

daemonVars == <<config, http_client, ctx, eof, reader, nread, chan, pc, req, resp, out, hist, env>>
codecVars == <<codec>>
pamVars == <<pam>>
nssVars == <<nss>>
adapterVars == <<pamVars, nssVars>>
vars == <<daemonVars, codecVars, adapterVars>>

(***************************************************************************)
(* Bounds of the model.                                                    *)
(***************************************************************************)
MaxServers == 3
MaxReqs == 2
NumSessions == 2

Sessions == 1..NumSessions

(***************************************************************************)
(* Program constants.                                                      *)
(***************************************************************************)
MAX_TRIES == 8
TOLOWER_BUF == 16
SPLITN_PARTS == 5
GID_RESTRICT_MIN == 1000
\* webnis-pam webnis.rs: tries of wnbind_auth, and the sleep between them
PAM_MAX_TRIES == 2
RETRY_DELAY_MS == 2500
\* webnis-server util.rs check_unix_password: the length of a DES hash
DES_HASH_LEN == 13
\* webnis-nss webnis.rs: the budget of wnbind_get, the sleep between tries,
\* the timeouts of the socket
MAX_TIMEOUT_MS == 2000
NSS_RETRY_DELAY_MS == 500
REQUEST_READ_TIMEOUT_MS == 1500
\* webnis-nss buffer.rs: the least buffer, where the strings start, the size
\* of a pointer
BUFFER_MIN_LEN == 24
BUFFER_START == 8
POINTER_SIZE == 8

(***************************************************************************)
(* Byte strings.                                                           *)
(***************************************************************************)
UpperCase == <<"A","B","C","D","E","F","G","H","I","J","K","L","M",
               "N","O","P","Q","R","S","T","U","V","W","X","Y","Z">>
LowerCase == <<"a","b","c","d","e","f","g","h","i","j","k","l","m",
               "n","o","p","q","r","s","t","u","v","w","x","y","z">>
Digits == <<"0","1","2","3","4","5","6","7","8","9">>

IsUpper(c) == \E i \in 1..26 : UpperCase[i] = c
IsDigit(c) == \E i \in 1..10 : Digits[i] = c
DigitVal(c) == (CHOOSE i \in 1..10 : Digits[i] = c) - 1

\* request.rs tolower(): bytes 65..90 get 32 added, the rest is kept.
ToLowerByte(c) == IF IsUpper(c) THEN LowerCase[CHOOSE i \in 1..26 : UpperCase[i] = c] ELSE c

\* request.rs tolower(): a string longer than the buffer is returned as it is.
tolower(s) ==
    IF Len(s) > TOLOWER_BUF THEN s
    ELSE [i \in 1..Len(s) |-> ToLowerByte(s[i])]

\* Index of the first occurrence of sep in s, 0 when there is none.
IndexOf(s, sep) ==
    IF \E i \in 1..Len(s) : s[i] = sep
    THEN CHOOSE i \in 1..Len(s) : s[i] = sep /\ \A j \in 1..(i-1) : s[j] # sep
    ELSE 0

\* str::splitn(n, sep): at most n parts, the last one holds the rest.
RECURSIVE splitn(_, _, _)
splitn(s, n, sep) ==
    IF n <= 1 \/ IndexOf(s, sep) = 0 THEN <<s>>
    ELSE <<SubSeq(s, 1, IndexOf(s, sep) - 1)>>
         \o splitn(SubSeq(s, IndexOf(s, sep) + 1, Len(s)), n - 1, sep)

\* str::split(sep): every part.
split(s, sep) == splitn(s, Len(s) + 1, sep)

\* Vec<&str>::join(sep)
RECURSIVE join(_, _)
join(parts, sep) ==
    IF Len(parts) = 0 THEN <<>>
    ELSE IF Len(parts) = 1 THEN parts[1]
    ELSE parts[1] \o <<sep>> \o join(Tail(parts), sep)

\* Value of a string of decimal digits.
RECURSIVE DecValue(_)
DecValue(s) ==
    IF Len(s) = 0 THEN 0
    ELSE 10 * DecValue(SubSeq(s, 1, Len(s) - 1)) + DigitVal(s[Len(s)])

\* u32::MAX in decimal.  The model checker's integers are narrower than u32,
\* so the overflow test of a parse is done on the digits.
U32_MAX_DIGITS == <<"4","2","9","4","9","6","7","2","9","5">>

RECURSIVE StripZeros(_)
StripZeros(d) == IF Len(d) > 1 /\ d[1] = "0" THEN StripZeros(Tail(d)) ELSE d

\* a <= b for two digit strings of the same length
DigitsLeq(a, b) ==
    \/ a = b
    \/ \E i \in 1..Len(a) : /\ DigitVal(a[i]) < DigitVal(b[i])
                            /\ \A j \in 1..(i-1) : a[j] = b[j]

FitsU32(d) ==
    LET z == StripZeros(d)
    IN  Len(z) < Len(U32_MAX_DIGITS) \/ (Len(z) = Len(U32_MAX_DIGITS) /\ DigitsLeq(z, U32_MAX_DIGITS))

\* str::parse::<u32>(): an optional '+', then one or more digits, no overflow.
\* The result is -1 for Err(_).
ParseU32Digits(d) ==
    IF Len(d) = 0 \/ \E i \in 1..Len(d) : ~IsDigit(d[i]) THEN -1
    ELSE IF ~FitsU32(d) THEN -1
    ELSE DecValue(d)

\* A faulty variant: what is no number reads as 0.
ParseU32OrZero(s) ==
    IF Len(s) > 0 /\ s[1] = "+" /\ ParseU32Digits(Tail(s)) >= 0 THEN ParseU32Digits(Tail(s))
    ELSE IF ParseU32Digits(s) >= 0 THEN ParseU32Digits(s)
    ELSE 0

parse_u32(s) ==
    IF Len(s) > 0 /\ s[1] = "+" THEN ParseU32Digits(Tail(s))
    ELSE ParseU32Digits(s)

\* u32::to_string()
RECURSIVE to_string(_)
to_string(n) ==
    IF n < 10 THEN <<Digits[n + 1]>>
    ELSE to_string(n \div 10) \o <<Digits[(n % 10) + 1]>>

(***************************************************************************)
(* The request lines of the daemon protocol (request.rs).                  *)
(***************************************************************************)
V_auth == <<"a","u","t","h">>
V_getpwnam == <<"g","e","t","p","w","n","a","m">>
V_getpwuid == <<"g","e","t","p","w","u","i","d">>
V_getgrnam == <<"g","e","t","g","r","n","a","m">>
V_getgrgid == <<"g","e","t","g","r","g","i","d">>
V_getgidlist == <<"g","e","t","g","i","d","l","i","s","t">>
V_servers == <<"s","e","r","v","e","r","s">>

\* request.rs Request::parse, the match on the lower-cased verb:
\* (cmd, argsmin, argsmax), cmd "" for an unknown command.
\* The "servers" arm yields Cmd::GetGidList, as the source has it.
VerbTable(c) ==
    IF c = V_auth THEN [cmd |-> "Auth", argsmin |-> 2, argsmax |-> 4]
    ELSE IF c = V_getpwnam THEN [cmd |-> "GetPwNam", argsmin |-> 1, argsmax |-> 1]
    ELSE IF c = V_getpwuid THEN [cmd |-> "GetPwUid", argsmin |-> 1, argsmax |-> 1]
    ELSE IF c = V_getgrnam THEN [cmd |-> "GetGrNam", argsmin |-> 1, argsmax |-> 1]
    ELSE IF c = V_getgrgid THEN [cmd |-> "GetGrGid", argsmin |-> 1, argsmax |-> 1]
    ELSE IF c = V_getgidlist THEN [cmd |-> "GetGidList", argsmin |-> 1, argsmax |-> 1]
    ELSE IF c = V_servers THEN [cmd |-> "GetGidList", argsmin |-> 0, argsmax |-> 0]
    ELSE [cmd |-> "", argsmin |-> 0, argsmax |-> 0]

ParseError(msg) == [ok |-> FALSE, cmd |-> "", args |-> <<>>, arg0 |-> 0, err |-> msg]

\* request.rs Request::parse
parse(input) ==
    LET parts == splitn(input, SPLITN_PARTS, " ")
        c == tolower(parts[1])
        args == Tail(parts)
        v == VerbTable(c)
        numeric == v.cmd \in {"GetPwUid", "GetGrGid"}
    IN  IF v.cmd = "" THEN ParseError("unknown command")
        ELSE IF Len(args) < v.argsmin \/ Len(args) > v.argsmax
             THEN ParseError("wrong number of arguments")
        ELSE IF numeric /\ parse_u32(args[1]) < 0 THEN ParseError("Not a number")
        ELSE [ok |-> TRUE, cmd |-> v.cmd, args |-> args,
              arg0 |-> IF numeric THEN parse_u32(args[1]) ELSE 0, err |-> ""]

\* The request lines clients send in the model, by number.
Lines ==
    << <<"g","e","t","p","w","n","a","m"," ","t","r","u","u","s">>,  \*  1: getpwnam truus
       <<"G","e","t","P","w","N","a","m"," ","t","r","u","u","s">>,  \*  2: GetPwNam truus
       <<"g","e","t","p","w","u","i","d"," ","0">>,  \*  3: getpwuid 0
       <<"g","e","t","p","w","u","i","d"," ","1","0","0","0">>,  \*  4: getpwuid 1000
       <<"g","e","t","p","w","u","i","d"," ","1","0","0","1">>,  \*  5: getpwuid 1001
       <<"g","e","t","p","w","u","i","d"," ","x">>,  \*  6: getpwuid x
       <<"g","e","t","g","r","n","a","m"," ","s","t","a","f","f">>,  \*  7: getgrnam staff
       <<"g","e","t","g","r","g","i","d"," ","9","9","9">>,  \*  8: getgrgid 999
       <<"g","e","t","g","r","g","i","d"," ","1","0","0","0">>,  \*  9: getgrgid 1000
       <<"g","e","t","g","r","g","i","d"," ","1","0","0","1">>,  \* 10: getgrgid 1001
       <<"g","e","t","g","i","d","l","i","s","t"," ","t","r","u","u","s">>,  \* 11: getgidlist truus
       <<"a","u","t","h"," ","t","r","u","u","s"," ","p","w">>,  \* 12: auth truus pw
       <<"a","u","t","h"," ","t","r","u","u","s"," ","p","w"," ","s","s","h"," ","h">>,  \* 13: auth truus pw ssh h
       <<"a","u","t","h"," ","t","r","u","u","s">>,  \* 14: auth truus
       <<"s","e","r","v","e","r","s">>,  \* 15: servers
       <<"S","E","R","V","E","R","S">>,  \* 16: SERVERS
       <<"s","e","r","v","e","r","s"," ","x">>,  \* 17: servers x
       <<"b","o","g","u","s">>,  \* 18: bogus
       <<"g","e","t","p","w","n","a","m">>,  \* 19: getpwnam
       <<"g","e","t","p","w","n","a","m"," ","t","r","u","u","s"," ","x">>,  \* 20: getpwnam truus x
       <<>> >>  \* 21: the empty line


(***************************************************************************)
(* JSON values.  Every value is a record of the same five fields, so that  *)
(* values of different kinds can be compared.  "invalid" stands for bytes  *)
(* that are no JSON at all.                                                *)
(***************************************************************************)
EmptyObj == [x \in {} |-> 0]
JVal(t, n, s, a, o) == [t |-> t, n |-> n, s |-> s, a |-> a, o |-> o]
JNull == JVal("null", 0, <<>>, <<>>, EmptyObj)
JInvalid == JVal("invalid", 0, <<>>, <<>>, EmptyObj)
JNum(n) == JVal("num", n, <<>>, <<>>, EmptyObj)
JStr(s) == JVal("str", 0, s, <<>>, EmptyObj)
JArr(a) == JVal("arr", 0, <<>>, a, EmptyObj)
JObj(o) == JVal("obj", 0, <<>>, <<>>, o)

(***************************************************************************)
(* The daemon's response reshaper (webnis-bind response.rs).               *)
(***************************************************************************)
\* response.rs Response::error: format!("{} {}", code, message)
Response_error(code, message) == [code |-> code, msg |-> message, line |-> <<>>, data |-> <<>>]

\* A success line: "200 " followed by the line.
Response_line(line) == [code |-> 200, msg |-> "", line |-> line, data |-> <<>>]

\* serde: a derived struct is read from a JSON object that has every field
\* (other members are ignored) or from a JSON array of exactly its fields.
HasFields(v, names) ==
    \/ v.t = "obj" /\ {names[i] : i \in 1..Len(names)} \subseteq DOMAIN v.o
    \/ v.t = "arr" /\ Len(v.a) = Len(names)

Field(v, names, i) == IF v.t = "obj" THEN v.o[names[i]] ELSE v.a[i]

IsStr(v) == v.t = "str"
\* uid_t / gid_t: a non-negative integer (every integer of the model is below 2^32)
IsU32(v) == v.t = "num" /\ v.n >= 0
IsStrArr(v) == v.t = "arr" /\ \A i \in 1..Len(v.a) : IsStr(v.a[i])
IsU32Arr(v) == v.t = "arr" /\ \A i \in 1..Len(v.a) : IsU32(v.a[i])

\* response.rs struct Passwd
PasswdFields == <<"username", "passwd", "uid", "gid", "gecos", "home", "shell">>
IsPasswd(v) ==
    /\ HasFields(v, PasswdFields)
    /\ \A i \in {1, 2, 5, 6, 7} : IsStr(Field(v, PasswdFields, i))
    /\ \A i \in {3, 4} : IsU32(Field(v, PasswdFields, i))

\* response.rs struct Group
GroupFields == <<"group", "passwd", "gid", "members">>
IsGroup(v) ==
    /\ HasFields(v, GroupFields)
    /\ \A i \in {1, 2} : IsStr(Field(v, GroupFields, i))
    /\ IsU32(Field(v, GroupFields, 3))
    /\ IsStrArr(Field(v, GroupFields, 4))

\* response.rs struct Gidlist
GidlistFields == <<"username", "gidlist">>
IsGidlist(v) ==
    /\ HasFields(v, GidlistFields)
    /\ IsStr(Field(v, GidlistFields, 1))
    /\ IsU32Arr(Field(v, GidlistFields, 2))

\* response.rs struct Auth {}: no field is required.
IsAuth(v) == HasFields(v, <<>>)

\* response.rs enum ResponseVariants, #[serde(untagged)]: the first variant
\* that deserializes, in declaration order.
ResponseVariants(v) ==
    IF IsPasswd(v) THEN "Passwd"
    ELSE IF IsGroup(v) THEN "Group"
    ELSE IF IsGidlist(v) THEN "Gidlist"
    ELSE IF IsAuth(v) THEN "Auth"
    ELSE "none"

\* response.rs Passwd::to_line
Passwd_to_line(v) ==
    LET f(i) == Field(v, PasswdFields, i)
    IN  Response_line(join(<<f(1).s, f(2).s, to_string(f(3).n), to_string(f(4).n),
                             f(5).s, f(6).s, f(7).s>>, ":"))

\* response.rs Group::to_line
Group_to_line(v) ==
    LET f(i) == Field(v, GroupFields, i)
        members == [i \in 1..Len(f(4).a) |-> f(4).a[i].s]
    IN  Response_line(join(<<f(1).s, f(2).s, to_string(f(3).n), join(members, ",")>>, ":"))

\* response.rs Gidlist::to_line
Gidlist_to_line(v) ==
    LET f(i) == Field(v, GidlistFields, i)
        gids == [i \in 1..Len(f(2).a) |-> to_string(f(2).a[i].n)]
    IN  Response_line(join(<<f(1).s, join(gids, ",")>>, ":"))

\* response.rs Auth::to_line
Auth_to_line == [code |-> 200, msg |-> "OK", line |-> <<>>, data |-> <<>>]

\* response.rs struct ResponseError: code i64, message String, data Option<String>
ErrorFields == <<"code", "message">>
IsResponseError(v) ==
    \/ /\ v.t = "obj"
       /\ HasFields(v, ErrorFields)
       /\ v.o.code.t = "num" /\ IsStr(v.o.message)
       /\ "data" \in DOMAIN v.o => v.o.data.t \in {"str", "null"}
    \/ /\ v.t = "arr" /\ Len(v.a) = 3
       /\ v.a[1].t = "num" /\ IsStr(v.a[2]) /\ v.a[3].t \in {"str", "null"}

\* response.rs enum Response, #[serde(untagged)]: Success { result }, then
\* Error { error }.
IsSuccess(doc) ==
    HasFields(doc, <<"result">>) /\ ResponseVariants(Field(doc, <<"result">>, 1)) # "none"
IsError(doc) ==
    HasFields(doc, <<"error">>) /\ IsResponseError(Field(doc, <<"error">>, 1))

\* response.rs Response::transform
transform(doc) ==
    IF IsSuccess(doc) THEN
        LET result == Field(doc, <<"result">>, 1)
            variant == ResponseVariants(result)
        IN  IF variant = "Passwd" THEN Passwd_to_line(result)
            ELSE IF variant = "Group" THEN Group_to_line(result)
            ELSE IF variant = "Gidlist" THEN Gidlist_to_line(result)
            ELSE Auth_to_line
    ELSE IF IsError(doc) THEN
        LET error == Field(doc, <<"error">>, 1)
        IN  Response_error(Field(error, ErrorFields, 1).n, "server message")
    ELSE Response_error(400, "json error")

(***************************************************************************)
(* The map server's line codecs (webnis-server format.rs) and reply        *)
(* bodies (util.rs).                                                       *)
(***************************************************************************)
\* The result of a from_line: Err(WnError::DeserializeData) is ok = FALSE.
CodecErr == [ok |-> FALSE, json |-> JNull]
CodecOk(v) == [ok |-> TRUE, json |-> v]

\* format.rs Passwd::from_line and its derived Serialize
Passwd_from_line(line) ==
    LET fields == split(line, ":")
    IN  IF Len(fields) # 7 THEN CodecErr
        ELSE IF parse_u32(fields[3]) < 0 \/ parse_u32(fields[4]) < 0 THEN CodecErr
        ELSE CodecOk(JObj([name |-> JStr(fields[1]), passwd |-> JStr(fields[2]),
                           uid |-> JNum(parse_u32(fields[3])),
                           gid |-> JNum(parse_u32(fields[4])),
                           gecos |-> JStr(fields[5]), dir |-> JStr(fields[6]),
                           shell |-> JStr(fields[7])]))

\* format.rs Group::from_line and its derived Serialize
Group_from_line(line) ==
    LET fields == split(line, ":")
        mem == split(fields[4], ",")
    IN  IF Len(fields) # 4 THEN CodecErr
        ELSE IF parse_u32(fields[3]) < 0 THEN CodecErr
        ELSE CodecOk(JObj([name |-> JStr(fields[1]), passwd |-> JStr(fields[2]),
                           gid |-> JNum(parse_u32(fields[3])),
                           mem |-> JArr([i \in 1..Len(mem) |-> JStr(mem[i])])]))

\* format.rs line_to_json, the formats whose value is a record line.
line_to_json(line, format) ==
    IF format = "Passwd" THEN Passwd_from_line(line)
    ELSE IF format = "Group" THEN Group_from_line(line)
    ELSE CodecErr

\* util.rs json_result: {"result": msg}
json_result(msg) == JObj([result |-> msg])

\* util.rs json_error: {"error": {"code": inner or outer, "message": msg}}
json_error(code) == JObj([error |-> JObj([code |-> JNum(code), message |-> JStr(<<"m">>)])])


(***************************************************************************)
(* The daemon: request processing (webnis-bind request.rs process).        *)
(***************************************************************************)
NoPath == [map |-> "", param |-> "", key |-> <<>>, cred_uid |-> 0]

Decision(kind, r, try_no, path) == [kind |-> kind, resp |-> r, try_no |-> try_no, path |-> path]

\* request.rs process, the match that names the map and the key parameter.
MapOf(cmd) ==
    IF cmd = "GetPwNam" THEN [map |-> "passwd", param |-> "username"]
    ELSE IF cmd = "GetPwUid" THEN [map |-> "passwd", param |-> "uid"]
    ELSE IF cmd = "GetGrNam" THEN [map |-> "group", param |-> "group"]
    ELSE IF cmd = "GetGrGid" THEN [map |-> "group", param |-> "gid"]
    ELSE [map |-> "gidlist", param |-> "username"]

\* request.rs process: getpwuid() restricted to the session's own uid
\* A faulty variant: root is restricted as well.
GetPwUidForbiddenRoot(cfg, cx, request) ==
    /\ cfg.restrict_getpwuid /\ request.cmd = "GetPwUid"
    /\ request.arg0 # cx.uid

\* request.rs process: getpwuid() restricted to the own uid
GetPwUidForbidden(cfg, cx, request) ==
    /\ cfg.restrict_getpwuid /\ request.cmd = "GetPwUid"
    /\ cx.uid > 0 /\ request.arg0 # cx.uid

\* A faulty variant: the gid 1000 itself is not restricted.
GetGrGidForbiddenAbove(cfg, cx, request) ==
    /\ cfg.restrict_getgrgid /\ request.cmd = "GetGrGid"
    /\ cx.uid > 0 /\ request.arg0 > GID_RESTRICT_MIN /\ request.arg0 # cx.gid

\* request.rs process: getgrgid() restricted to gids < 1000 and the own gid
GetGrGidForbidden(cfg, cx, request) ==
    /\ cfg.restrict_getgrgid /\ request.cmd = "GetGrGid"
    /\ cx.uid > 0 /\ request.arg0 >= GID_RESTRICT_MIN /\ request.arg0 # cx.gid

\* request.rs process, up to its call of req_with_retries: what the daemon
\* decides to do with a request line.
\*   "reply"    answer at once with resp
\*   "servers"  answer with the state of the pool
\*   "request"  HTTPS request(s), the first one numbered try_no
\*   "panic"    args[0] of an empty argument list: the task panics
process(cfg, cx, line) ==
    LET request == parse(line)
    IN  IF ~request.ok THEN Decision("reply", Response_error(400, request.err), 0, NoPath)
        ELSE IF GetPwUidForbidden(cfg, cx, request)
             THEN Decision("reply", Response_error(403, "Forbidden"), 0, NoPath)
        ELSE IF GetGrGidForbidden(cfg, cx, request)
             THEN Decision("reply", Response_error(403, "Forbidden"), 0, NoPath)
        ELSE IF request.cmd = "Auth"
             THEN Decision("request", Response_error(0, ""), 1,
                           [map |-> "auth", param |-> "username", key |-> request.args[1],
                            cred_uid |-> cx.uid])
        ELSE IF request.cmd = "Servers"
             THEN Decision("servers", Response_error(0, ""), 0, NoPath)
        ELSE IF Len(request.args) = 0
             THEN Decision("panic", Response_error(0, ""), 0, NoPath)
        ELSE Decision("request", Response_error(0, ""), 0,
                      [map |-> MapOf(request.cmd).map, param |-> MapOf(request.cmd).param,
                       key |-> request.args[1], cred_uid |-> cx.uid])

\* request.rs process, the Cmd::Servers branch: "200 " and the JSON object
\* {seqno, active, servers}; active is None (-1 here) without a client.
ServersReply(cfg, pool) ==
    [code |-> 200, msg |-> "servers", line |-> <<>>,
     data |-> <<IF pool.client THEN pool.seqno % cfg.nservers ELSE -1, pool.seqno, cfg.nservers>>]

(***************************************************************************)
(* The daemon: one HTTPS attempt and the retry engine (req_with_retries).  *)
(***************************************************************************)
\* A faulty variant: the new client is created without counting seqno up.
GetClientSameServer(pool) == [pool EXCEPT !.client = TRUE]

\* request.rs req_with_retries, first critical section: create the client
\* if there is none, and count seqno up when doing so.
GetClient(pool) ==
    IF ~pool.client THEN [client |-> TRUE, seqno |-> pool.seqno + 1] ELSE pool

\* A faulty variant: the attempt contacts the server after the one of its seqno.
ServerOfNext(cfg, seqno) == (seqno + 1) % cfg.nservers

\* request.rs req_with_retries: the server an attempt with this seqno contacts
ServerOf(cfg, seqno) == seqno % cfg.nservers

\* What the HTTPS client hands back for one attempt.
Reply(kind, status, is_json, body_ok, body) ==
    [kind |-> kind, status |-> status, is_json |-> is_json, body_ok |-> body_ok, body |-> body]

\* request.rs req_with_retries: the future chain from client.request() to
\* the timeout wrapper.  Ok(body) is ok = TRUE; Err(e) carries the line e.
AttemptResult(o) ==
    IF o.kind = "connect_error" THEN [ok |-> FALSE, e |-> Response_error(550, "GET error")]
    ELSE IF o.kind = "timeout" THEN [ok |-> FALSE, e |-> Response_error(408, "request timeout")]
    ELSE IF ~o.is_json THEN
        IF o.status >= 200 /\ o.status <= 299
        THEN [ok |-> FALSE, e |-> Response_error(416, "expected application/json")]
        ELSE [ok |-> FALSE, e |-> Response_error(o.status, "HTTP error")]
    ELSE IF ~o.body_ok THEN [ok |-> FALSE, e |-> Response_error(400, "GET body error")]
    ELSE [ok |-> TRUE, e |-> Response_error(0, "")]

\* A faulty variant: 401, 403 and 404 are retried like any other error.
ShouldRetryAnyCode(e, session_eof, try_no) ==
    /\ ~session_eof
    /\ try_no < MAX_TRIES

\* A faulty variant: an error of the server is final like 401, 403 and 404.
ShouldRetryNoServerError(e, session_eof, try_no) ==
    /\ e.code \notin {401, 403, 404} /\ e.code < 500
    /\ ~session_eof
    /\ try_no < MAX_TRIES

\* A faulty variant: the eof flag of the session is not looked at.
ShouldRetryAfterEof(e, session_eof, try_no) ==
    /\ e.code \notin {401, 403, 404}
    /\ try_no < MAX_TRIES

\* request.rs req_with_retries: the condition under which Err(e) is retried
ShouldRetry(e, session_eof, try_no) ==
    /\ e.code \notin {401, 403, 404}
    /\ ~session_eof
    /\ try_no < MAX_TRIES

\* A faulty variant: a failure leaves the pool alone.
InvalidateNothing(pool, seqno, e) == pool

\* request.rs req_with_retries, second critical section: on a failure that
\* is retried, drop the client (550) or move on to the next server, unless
\* another session has moved seqno already.
Invalidate(pool, seqno, e) ==
    IF pool.seqno = seqno
    THEN IF e.code = 550 THEN [pool EXCEPT !.client = FALSE]
         ELSE [pool EXCEPT !.seqno = pool.seqno + 1]
    ELSE pool


(***************************************************************************)
(* The environment of a run: which sessions connect, with which peer       *)
(* credentials, which lines they send and what the servers reply.          *)
(*   "sessions"  every session connects, sends one lookup and stays until  *)
(*               it is answered; the servers fail or answer                *)
(*   "replies"   one session sends one lookup or auth line; every kind of  *)
(*               reply                                                     *)
(*   "lines"     one session sends up to MaxReqs lines of Lines; servers   *)
(*               that answer                                               *)
(*   "pipeline"  one session sends up to MaxReqs lookups; the servers fail *)
(*               or answer                                                 *)
(***************************************************************************)
Environments == {"sessions", "replies", "lines", "pipeline"}

EnvSessions(e) == IF e = "sessions" THEN Sessions ELSE {1}
EnvLines(e) ==
    IF e \in {"sessions", "pipeline"} THEN {1}
    ELSE IF e = "replies" THEN {1, 12}
    ELSE 1..Len(Lines)
EnvReqs(e) == IF e \in {"lines", "pipeline"} THEN MaxReqs ELSE 1
EnvCreds(e) ==
    IF e = "lines"
    THEN {[uid |-> 0, gid |-> 0], [uid |-> 1001, gid |-> 1001]}
    ELSE {[uid |-> 1000, gid |-> 1000]}
EnvRestrict(e) == IF e = "lines" THEN BOOLEAN ELSE {FALSE}
EnvServers(e) == IF e = "replies" THEN 1..MaxServers ELSE {2}

\* A passwd entry as the daemon's reshaper reads it.
SamplePasswd ==
    JObj([username |-> JStr(<<"t">>), passwd |-> JStr(<<"x">>), uid |-> JNum(1000),
          gid |-> JNum(100), gecos |-> JStr(<<>>), home |-> JStr(<<"/">>), shell |-> JStr(<<>>)])

NoBody == JNull
NoReply == Reply("none", 0, FALSE, FALSE, NoBody)

\* Replies without a JSON body that reaches the reshaper.
PlainReplies ==
    {Reply("connect_error", 0, FALSE, FALSE, NoBody), Reply("timeout", 0, FALSE, FALSE, NoBody),
     Reply("response", 200, TRUE, FALSE, NoBody)}
    \cup {Reply("response", st, FALSE, TRUE, NoBody) : st \in {200, 401, 403, 404, 500}}

\* Replies of content type application/json, as webnis-server builds them
\* (util.rs json_result, json_error with its outer and inner code), and one
\* whose body is no JSON.
JsonReplies ==
    {Reply("response", 200, TRUE, TRUE, json_result(SamplePasswd)),
     Reply("response", 200, TRUE, TRUE, json_result(JObj(EmptyObj))),
     Reply("response", 404, TRUE, TRUE, json_error(404)),
     Reply("response", 403, TRUE, TRUE, json_error(401)),
     Reply("response", 500, TRUE, TRUE, json_error(500)),
     Reply("response", 200, TRUE, TRUE, JInvalid)}

Replies == PlainReplies \cup JsonReplies

EnvReplies(e) ==
    IF e \in {"sessions", "pipeline"}
    THEN {Reply("connect_error", 0, FALSE, FALSE, NoBody),
          Reply("response", 500, FALSE, TRUE, NoBody),
          Reply("response", 200, TRUE, TRUE, json_result(SamplePasswd))}
    ELSE IF e = "replies" THEN Replies
    ELSE {Reply("response", 200, TRUE, TRUE, json_result(SamplePasswd)),
          Reply("response", 404, TRUE, TRUE, json_error(404))}

(***************************************************************************)
(* The daemon's state.                                                     *)
(***************************************************************************)
NoReq == [k |-> 0, line |-> 0, try_no |-> 0, seqno |-> 0]
EofItem == [k |-> 0, line |-> 0]
NoResp == Response_error(0, "")
NoCodec == [stage |-> "none"]
NoPam == [stage |-> "none"]
NoNss == [stage |-> "none"]

Servers == 0..(config.nservers - 1)

\* The session whose requests are observed: hist records what its request
\* in flight has done.  The sessions run the same code, so what holds of
\* this one holds of each.
Observed == {1}

\* What a request has done: attempts started and failed, how often each
\* server was contacted, whether another session changed the pool meanwhile
\* and, where one session runs alone, the pool when the request began, the
\* code of its first failed attempt and the reply to its latest attempt.
NoHist ==
    [attempts |-> 0, failed |-> 0, contacted |-> [i \in Servers |-> 0],
     seq0 |-> 0, cl0 |-> FALSE, first |-> 0, reply |-> NoReply, disturbed |-> FALSE]

\* A faulty variant: the newest item is taken first.
ChanRecvLast(q) == q[Len(q)]

\* main.rs: the receiving end of the channel yields the items in the order sent
ChanRecv(q) == Head(q)

\* main.rs main: the pool starts without a client, seqno = pid % servers.len();
\* every session starts with a clear eof flag and a reader task.
Init ==
    /\ env \in Environments
    /\ \E n \in EnvServers(env), r1 \in EnvRestrict(env), r2 \in EnvRestrict(env) :
          config = [nservers |-> n, restrict_getpwuid |-> r1, restrict_getgrgid |-> r2]
    /\ \E p \in Servers : http_client = [client |-> FALSE, seqno |-> p]
    /\ \E c \in EnvCreds(env) : ctx = [s \in Sessions |-> c]
    /\ eof = [s \in Sessions |-> FALSE]
    /\ reader = [s \in Sessions |-> IF s \in EnvSessions(env) THEN "reading" ELSE "done"]
    /\ nread = [s \in Sessions |-> 0]
    /\ chan = [s \in Sessions |-> <<>>]
    /\ pc = [s \in Sessions |-> IF s \in EnvSessions(env) THEN "idle" ELSE "closed"]
    /\ req = [s \in Sessions |-> NoReq]
    /\ resp = [s \in Sessions |-> NoResp]
    /\ out = [s \in Sessions |-> <<>>]
    /\ hist = [s \in Sessions |-> NoHist]
    /\ codec = NoCodec
    /\ pam = NoPam
    /\ nss = NoNss

Busy == {"inflight", "retry"}

\* hist when session s has set the pool to p and its own history to h.
Record(s, p, h) ==
    [t \in Sessions |->
        IF t \notin Observed THEN hist[t]
        ELSE IF t = s THEN h
        ELSE IF p # http_client /\ pc[t] \in Busy THEN [hist[t] EXCEPT !.disturbed = TRUE]
        ELSE hist[t]]

\* The history of a request after the start of an attempt with seqno sq.
Contacted(h, sq) ==
    [h EXCEPT !.attempts = h.attempts + 1,
              !.contacted[ServerOf(config, sq)] = h.contacted[ServerOf(config, sq)] + 1]

\* The environments with one session.
Alone == env # "sessions"

\* The history of a request that begins with the pool p.
Began(p) == IF Alone THEN [NoHist EXCEPT !.seq0 = p.seqno, !.cl0 = p.client] ELSE NoHist

\* The history of a request after the reply o to its attempt.
Outcome(h, o) ==
    LET r == AttemptResult(o)
        failed == IF r.ok THEN h.failed ELSE h.failed + 1
    IN  IF Alone
        THEN [h EXCEPT !.failed = failed, !.reply = o,
                       !.first = IF ~r.ok /\ h.failed = 0 THEN r.e.code ELSE h.first]
        ELSE [h EXCEPT !.failed = failed]

\* main.rs main, the reader task: a line read from the socket is sent on the
\* channel.
ReadLine(s, l) ==
    /\ reader[s] = "reading" /\ nread[s] < EnvReqs(env) /\ l \in EnvLines(env)
    /\ nread' = [nread EXCEPT ![s] = nread[s] + 1]
    /\ chan' = [chan EXCEPT ![s] = Append(chan[s], [k |-> nread[s] + 1, line |-> l])]
    /\ UNCHANGED <<config, http_client, ctx, eof, reader, pc, req, resp, out, hist, env, codecVars, adapterVars>>

\* main.rs main, the reader task: a read error or the end of the stream sets
\* the eof flag, and the error is sent on the channel.  The clients of the
\* "sessions" environment hang up only when every line sent was answered.
ReadEof(s) ==
    /\ reader[s] = "reading" /\ (Alone \/ Len(out[s]) = nread[s])
    /\ eof' = [eof EXCEPT ![s] = TRUE]
    /\ chan' = [chan EXCEPT ![s] = Append(chan[s], EofItem)]
    /\ reader' = [reader EXCEPT ![s] = "done"]
    /\ UNCHANGED <<config, http_client, ctx, nread, pc, req, resp, out, hist, env, codecVars, adapterVars>>

\* main.rs main: the error item ends the stream of responses and with it
\* the session.
SessionClose(s) ==
    /\ pc[s] = "idle" /\ chan[s] # <<>> /\ ChanRecv(chan[s]) = EofItem
    /\ chan' = [chan EXCEPT ![s] = Tail(chan[s])]
    /\ pc' = [pc EXCEPT ![s] = "closed"]
    /\ UNCHANGED <<config, http_client, ctx, eof, reader, nread, req, resp, out, hist, env, codecVars, adapterVars>>

\* The decisions of process for every configuration, peer and line of the
\* model, worked out once.
AllConfigs == [nservers : 1..MaxServers, restrict_getpwuid : BOOLEAN, restrict_getgrgid : BOOLEAN]
AllCreds == UNION {EnvCreds(e) : e \in Environments}
Decisions ==
    {<<cfg, cx, l, process(cfg, cx, Lines[l])>> :
        cfg \in AllConfigs, cx \in AllCreds, l \in DOMAIN Lines}

\* The decision of process for the line at the head of the channel.
Decide(s) ==
    (CHOOSE d \in Decisions :
        d[1] = config /\ d[2] = ctx[s] /\ d[3] = ChanRecv(chan[s]).line)[4]

HasLine(s) == pc[s] = "idle" /\ chan[s] # <<>> /\ ChanRecv(chan[s]) # EofItem

\* The request that process makes of the item at the head of the channel.
Taken(s) ==
    [k |-> ChanRecv(chan[s]).k, line |-> ChanRecv(chan[s]).line,
     try_no |-> Decide(s).try_no, seqno |-> 0]

\* request.rs process: a line answered without an HTTPS request.
ProcessReply(s) ==
    /\ HasLine(s) /\ Decide(s).kind \in {"reply", "servers"}
    /\ chan' = [chan EXCEPT ![s] = Tail(chan[s])]
    /\ req' = [req EXCEPT ![s] = Taken(s)]
    /\ resp' = [resp EXCEPT ![s] = IF Decide(s).kind = "servers"
                                   THEN ServersReply(config, http_client) ELSE Decide(s).resp]
    /\ pc' = [pc EXCEPT ![s] = "respond"]
    /\ hist' = Record(s, http_client, Began(http_client))
    /\ UNCHANGED <<config, http_client, ctx, eof, reader, nread, out, env, codecVars, adapterVars>>

\* request.rs process: indexing the empty argument list panics; the runtime
\* drops the session's task, nothing is written.
ProcessPanic(s) ==
    /\ HasLine(s) /\ Decide(s).kind = "panic"
    /\ chan' = [chan EXCEPT ![s] = Tail(chan[s])]
    /\ req' = [req EXCEPT ![s] = Taken(s)]
    /\ pc' = [pc EXCEPT ![s] = "panicked"]
    /\ reader' = [reader EXCEPT ![s] = "done"]
    /\ UNCHANGED <<config, http_client, ctx, eof, nread, resp, out, hist, env, codecVars, adapterVars>>

\* request.rs process and req_with_retries: the first attempt of a request.
ProcessRequest(s) ==
    /\ HasLine(s) /\ Decide(s).kind = "request"
    /\ chan' = [chan EXCEPT ![s] = Tail(chan[s])]
    /\ http_client' = GetClient(http_client)
    /\ req' = [req EXCEPT ![s] = [Taken(s) EXCEPT !.seqno = http_client'.seqno]]
    /\ pc' = [pc EXCEPT ![s] = "inflight"]
    /\ hist' = Record(s, http_client', Contacted(Began(http_client), http_client'.seqno))
    /\ UNCHANGED <<config, ctx, eof, reader, nread, resp, out, env, codecVars, adapterVars>>

\* request.rs req_with_retries: the attempt yields a body, which the
\* reshaper turns into the response line.
AttemptBody(s, o) ==
    /\ pc[s] = "inflight" /\ o \in EnvReplies(env) /\ AttemptResult(o).ok
    /\ resp' = [resp EXCEPT ![s] = transform(o.body)]
    /\ hist' = Record(s, http_client, Outcome(hist[s], o))
    /\ pc' = [pc EXCEPT ![s] = "respond"]
    /\ UNCHANGED <<config, http_client, ctx, eof, reader, nread, chan, req, out, env, codecVars, adapterVars>>

\* request.rs req_with_retries: the attempt fails and the failure is final.
AttemptError(s, o) ==
    /\ pc[s] = "inflight" /\ o \in EnvReplies(env) /\ ~AttemptResult(o).ok
    /\ ~ShouldRetry(AttemptResult(o).e, eof[s], req[s].try_no)
    /\ resp' = [resp EXCEPT ![s] = AttemptResult(o).e]
    /\ hist' = Record(s, http_client, Outcome(hist[s], o))
    /\ pc' = [pc EXCEPT ![s] = "respond"]
    /\ UNCHANGED <<config, http_client, ctx, eof, reader, nread, chan, req, out, env, codecVars, adapterVars>>

\* request.rs req_with_retries: the attempt fails and is retried; the pool
\* is invalidated under the mutex.
AttemptRetry(s, o) ==
    /\ pc[s] = "inflight" /\ o \in EnvReplies(env) /\ ~AttemptResult(o).ok
    /\ ShouldRetry(AttemptResult(o).e, eof[s], req[s].try_no)
    /\ http_client' = Invalidate(http_client, req[s].seqno, AttemptResult(o).e)
    /\ hist' = Record(s, http_client', Outcome(hist[s], o))
    /\ pc' = [pc EXCEPT ![s] = "retry"]
    /\ UNCHANGED <<config, ctx, eof, reader, nread, chan, req, resp, out, env, codecVars, adapterVars>>

\* request.rs req_with_retries, called again with try_no + 1: the next
\* attempt reads the pool under the mutex.
Retry(s) ==
    /\ pc[s] = "retry"
    /\ http_client' = GetClient(http_client)
    /\ req' = [req EXCEPT ![s].try_no = req[s].try_no + 1, ![s].seqno = http_client'.seqno]
    /\ hist' = Record(s, http_client', Contacted(hist[s], http_client'.seqno))
    /\ pc' = [pc EXCEPT ![s] = "inflight"]
    /\ UNCHANGED <<config, ctx, eof, reader, nread, chan, resp, out, env, codecVars, adapterVars>>

\* main.rs main: the writer sends the response line of the request; the
\* session then waits for the next item of the channel.
WriteResponse(s) ==
    /\ pc[s] = "respond"
    /\ out' = [out EXCEPT ![s] = Append(out[s], req[s].k)]
    /\ pc' = [pc EXCEPT ![s] = "idle"]
    /\ req' = [req EXCEPT ![s] = NoReq]
    /\ resp' = [resp EXCEPT ![s] = NoResp]
    /\ hist' = Record(s, http_client, NoHist)
    /\ UNCHANGED <<config, http_client, ctx, eof, reader, nread, chan, env, codecVars, adapterVars>>

Next ==
    \/ \E s \in Sessions, l \in 1..Len(Lines) : ReadLine(s, l)
    \/ \E s \in Sessions : ReadEof(s)
    \/ \E s \in Sessions : SessionClose(s)
    \/ \E s \in Sessions : ProcessReply(s)
    \/ \E s \in Sessions : ProcessPanic(s)
    \/ \E s \in Sessions : ProcessRequest(s)
    \/ \E s \in Sessions, o \in Replies : AttemptBody(s, o)
    \/ \E s \in Sessions, o \in Replies : AttemptError(s, o)
    \/ \E s \in Sessions, o \in Replies : AttemptRetry(s, o)
    \/ \E s \in Sessions : Retry(s)
    \/ \E s \in Sessions : WriteResponse(s)

Spec == Init /\ [][Next]_vars

(***************************************************************************)
(* A map lookup end to end: the server reads a record line of a map,       *)
(* turns it into JSON (format.rs), wraps it into its reply (webnis.rs      *)
(* handle_map), and the daemon's reshaper renders the reply as a response  *)
(* line (response.rs).                                                     *)
(***************************************************************************)
MaxMembers == 2

CodecNames == {<<"t","r","u","u","s">>, <<"t">>}
CodecNums == {<<"1","0","4","2">>, <<"4","2">>, <<"0">>}
CodecTexts == {<<>>, <<"T","r","u","u","s">>}
CodecDirs == {<<"/","h","o","m","e","/","t","r","u","u","s">>}
CodecShells == {<<>>, <<"/","b","i","n","/","s","h">>}
CodecMembers == {m \in UNION {[1..n -> CodecNames] : n \in 0..MaxMembers} :
                    \A i, j \in 1..Len(m) : i < j => m[i] # m[j]}

\* Record lines of a passwd map: name:passwd:uid:gid:gecos:dir:shell
PasswdLines ==
    {join(<<n, <<"x">>, u, g, c, d, sh>>, ":") :
        n \in CodecNames, u \in CodecNums, g \in CodecNums \ {<<"0">>},
        c \in CodecTexts, d \in CodecDirs, sh \in CodecShells}

\* Record lines of a group map: name:passwd:gid:member,member
GroupLines ==
    {join(<<n, <<"x">>, g, join(m, ",")>>, ":") :
        n \in CodecNames, g \in CodecNums, m \in CodecMembers}

\* Lines that are no record of the map's format.
BadLines == {<<"t",":","x",":","u",":","4","2",":",":","/",":">>, <<"t",":","x">>}

InitCodec ==
    /\ env = "lines"
    /\ config = [nservers |-> 1, restrict_getpwuid |-> FALSE, restrict_getgrgid |-> FALSE]
    /\ http_client = [client |-> FALSE, seqno |-> 0]
    /\ ctx = [s \in Sessions |-> [uid |-> 0, gid |-> 0]]
    /\ eof = [s \in Sessions |-> FALSE]
    /\ reader = [s \in Sessions |-> "done"]
    /\ nread = [s \in Sessions |-> 0]
    /\ chan = [s \in Sessions |-> <<>>]
    /\ pc = [s \in Sessions |-> "closed"]
    /\ req = [s \in Sessions |-> NoReq]
    /\ resp = [s \in Sessions |-> NoResp]
    /\ out = [s \in Sessions |-> <<>>]
    /\ hist = [s \in Sessions |-> NoHist]
    /\ \E f \in {"Passwd", "Group"} :
       \E l \in (IF f = "Passwd" THEN PasswdLines ELSE GroupLines) \cup BadLines :
          codec = [stage |-> "line", format |-> f, line |-> l,
                   res |-> CodecErr, doc |-> JNull, resp |-> NoResp]
    /\ pam = NoPam
    /\ nss = NoNss

\* webnis.rs lookup_gdbm_map: the line found in the map goes through the
\* codec of the map's format.
LookupGdbmMap ==
    /\ codec.stage = "line"
    /\ codec' = [codec EXCEPT !.stage = "json", !.res = line_to_json(codec.line, codec.format)]
    /\ UNCHANGED <<daemonVars, adapterVars>>

\* webnis.rs handle_map: the reply for the result of the lookup.
HandleMap ==
    /\ codec.stage = "json"
    /\ codec' = [codec EXCEPT !.stage = "reply",
                              !.doc = IF codec.res.ok THEN json_result(codec.res.json)
                                      ELSE json_error(500)]
    /\ UNCHANGED <<daemonVars, adapterVars>>

\* request.rs req_with_retries: the body of the reply goes to the reshaper.
Reshape ==
    /\ codec.stage = "reply"
    /\ codec' = [codec EXCEPT !.stage = "done", !.resp = transform(codec.doc)]
    /\ UNCHANGED <<daemonVars, adapterVars>>

NextCodec == LookupGdbmMap \/ HandleMap \/ Reshape

SpecCodec == InitCodec /\ [][NextCodec]_vars

(***************************************************************************)
(* Bytes and percent-encoding (crate percent-encoding 1.x, as called by    *)
(* webnis-pam, webnis-bind and webnis-server).  A printable ASCII byte is  *)
(* its one-character string, any other byte b (and the backquote, 0x60)    *)
(* is the token "\xHH".                                                    *)
(***************************************************************************)
Printable ==
    << " ", "!", "\"", "#", "$", "%", "&", "'", "(", ")", "*", "+", ",", "-", ".", "/",
       "0", "1", "2", "3", "4", "5", "6", "7", "8", "9", ":", ";", "<", "=", ">", "?",
       "@", "A", "B", "C", "D", "E", "F", "G", "H", "I", "J", "K", "L", "M", "N", "O",
       "P", "Q", "R", "S", "T", "U", "V", "W", "X", "Y", "Z", "[", "\\", "]", "^", "_",
       "\\x60", "a", "b", "c", "d", "e", "f", "g", "h", "i", "j", "k", "l", "m", "n", "o",
       "p", "q", "r", "s", "t", "u", "v", "w", "x", "y", "z", "{", "|", "}", "~" >>

HexUpper == <<"0","1","2","3","4","5","6","7","8","9","A","B","C","D","E","F">>
HexLower == <<"0","1","2","3","4","5","6","7","8","9","a","b","c","d","e","f">>

\* The character of byte b.
Chr(b) ==
    IF b >= 32 /\ b <= 126 THEN Printable[b - 31]
    ELSE "\\x" \o HexUpper[(b \div 16) + 1] \o HexUpper[(b % 16) + 1]

\* The byte of character c.
Ord(c) == CHOOSE b \in 0..255 : Chr(b) = c

NL == Chr(10)
TAB == Chr(9)

\* char::to_digit(16): -1 for a character that is no hexadecimal digit.
HexVal(c) ==
    IF \E i \in 1..16 : HexUpper[i] = c THEN (CHOOSE i \in 1..16 : HexUpper[i] = c) - 1
    ELSE IF \E i \in 1..16 : HexLower[i] = c THEN (CHOOSE i \in 1..16 : HexLower[i] = c) - 1
    ELSE -1

\* percent_encoding::SIMPLE_ENCODE_SET: bytes below 0x20 and above 0x7E.
SIMPLE_ENCODE_SET(c) == Ord(c) < 32 \/ Ord(c) > 126

\* percent_encoding::QUERY_ENCODE_SET: the simple set and space " # < >.
\* The percent sign, the ampersand and the equals sign are not in it.
QUERY_ENCODE_SET(c) == SIMPLE_ENCODE_SET(c) \/ c \in {" ", "\"", "#", "<", ">"}

\* percent_encode_byte under QUERY_ENCODE_SET: "%XX" in upper case.
QueryEncodeByte(c) ==
    IF QUERY_ENCODE_SET(c)
    THEN <<"%", HexUpper[(Ord(c) \div 16) + 1], HexUpper[(Ord(c) % 16) + 1]>>
    ELSE <<c>>

\* percent_encode(bytes, QUERY_ENCODE_SET).collect()
RECURSIVE percent_encode(_)
percent_encode(s) ==
    IF Len(s) = 0 THEN <<>> ELSE QueryEncodeByte(Head(s)) \o percent_encode(Tail(s))

\* percent_decode(bytes): "%" and two hexadecimal digits become one byte,
\* every other byte (a "%" not followed by two digits too) is kept.
RECURSIVE percent_decode(_)
percent_decode(s) ==
    IF Len(s) = 0 THEN <<>>
    ELSE IF s[1] = "%" /\ Len(s) >= 3 /\ HexVal(s[2]) >= 0 /\ HexVal(s[3]) >= 0
         THEN <<Chr(16 * HexVal(s[2]) + HexVal(s[3]))>> \o percent_decode(SubSeq(s, 4, Len(s)))
    ELSE <<s[1]>> \o percent_decode(Tail(s))

(***************************************************************************)
(* The PAM adapter (webnis-pam webnis.rs).                                 *)
(***************************************************************************)
Some(s) == [some |-> TRUE, s |-> s]
None == [some |-> FALSE, s |-> <<>>]

\* char::is_whitespace, for the bytes of the model
is_whitespace(c) == Ord(c) \in {9, 10, 11, 12, 13, 32}

\* str::contains(|c| c.is_whitespace())
contains_whitespace(s) == \E i \in 1..Len(s) : is_whitespace(s[i])

PamStop(e) == [ok |-> FALSE, err |-> e, user |-> <<>>, pass |-> <<>>, service |-> <<>>, remote |-> None]

\* A faulty variant: the remote host is not checked for whitespace.
AuthenticateRemoteUnchecked(items) ==
    IF ~items.user.some THEN PamStop("USER_UNKNOWN")
    ELSE IF contains_whitespace(items.user.s) THEN PamStop("AUTH_ERR")
    ELSE IF ~items.authtok.some THEN PamStop("AUTH_ERR")
    ELSE IF contains_whitespace(percent_encode(items.authtok.s)) THEN PamStop("AUTH_ERR")
    ELSE IF ~items.service.some THEN PamStop("AUTH_ERR")
    ELSE IF contains_whitespace(items.service.s) THEN PamStop("AUTH_ERR")
    ELSE [ok |-> TRUE, err |-> "", user |-> items.user.s,
          pass |-> percent_encode(items.authtok.s),
          service |-> items.service.s, remote |-> items.rhost]

\* webnis.rs authenticate, up to its call of wnbind_auth: the items of the
\* PAM handle are checked, the password is percent-encoded.
Authenticate(items) ==
    IF ~items.user.some THEN PamStop("USER_UNKNOWN")
    ELSE IF contains_whitespace(items.user.s) THEN PamStop("AUTH_ERR")
    ELSE IF ~items.authtok.some THEN PamStop("AUTH_ERR")
    ELSE IF contains_whitespace(percent_encode(items.authtok.s)) THEN PamStop("AUTH_ERR")
    ELSE IF ~items.service.some THEN PamStop("AUTH_ERR")
    ELSE IF contains_whitespace(items.service.s) THEN PamStop("AUTH_ERR")
    ELSE IF items.rhost.some /\ contains_whitespace(items.rhost.s) THEN PamStop("AUTH_ERR")
    ELSE [ok |-> TRUE, err |-> "", user |-> items.user.s,
          pass |-> percent_encode(items.authtok.s),
          service |-> items.service.s, remote |-> items.rhost]

\* webnis.rs wnbind_try: the request line, format!("auth {} {} {} {}\n") or
\* format!("auth {} {} {}\n")
RequestLine(a) ==
    <<"a","u","t","h"," ">> \o a.user \o <<" ">> \o a.pass \o <<" ">> \o a.service
        \o (IF a.remote.some THEN <<" ">> \o a.remote.s ELSE <<>>) \o <<NL>>

\* str::parse::<u16>(): -1 for Err
parse_u16(s) == IF parse_u32(s) >= 0 /\ parse_u32(s) <= 65535 THEN parse_u32(s) ELSE -1

\* webnis.rs wnbind_try, from the reply line on: Ok(()) is "SUCCESS".
WnbindReply(line) ==
    LET num == splitn(line, 2, " ")[1]
        code == parse_u16(num)
    IN  IF code < 0 THEN "AUTHINFO_UNAVAIL"
        ELSE IF code >= 200 /\ code <= 299 THEN "SUCCESS"
        ELSE IF code \in {401, 403, 404} THEN "AUTH_ERR"
        ELSE "AUTHINFO_UNAVAIL"

\* webnis.rs from_io_error
from_io_error(kind) ==
    IF kind \in {"TimedOut", "Interrupted"} THEN "AUTHINFO_UNAVAIL" ELSE "AUTH_ERR"

\* webnis.rs wnbind_auth, one turn of its loop for the result r of
\* wnbind_try: return at once, or sleep and go on, or fall out of the loop.
WnbindAuth(tries, r) ==
    IF r = "SUCCESS" THEN [return |-> TRUE, err |-> "SUCCESS", sleep |-> FALSE]
    ELSE IF r = "AUTH_ERR" THEN [return |-> TRUE, err |-> "AUTH_ERR", sleep |-> FALSE]
    ELSE IF tries < PAM_MAX_TRIES - 1
         THEN [return |-> FALSE, err |-> "", sleep |-> TRUE]
    ELSE [return |-> TRUE, err |-> "AUTHINFO_UNAVAIL", sleep |-> FALSE]


(***************************************************************************)
(* Authentication in the daemon (webnis-bind) and in the map server        *)
(* (webnis-server util.rs, webnis.rs).                                     *)
(***************************************************************************)
\* tokio_codec::LinesCodec::decode: the bytes before the first newline
LinesDecode(bytes) ==
    IF IndexOf(bytes, NL) = 0 THEN bytes ELSE SubSeq(bytes, 1, IndexOf(bytes, NL) - 1)

\* request.rs process, Cmd::Auth: the form body of the POST.  The user name,
\* the service and the remote host are percent-encoded, the password is
\* put in as the client sent it.
AuthBody(request) ==
    <<"u","s","e","r","n","a","m","e","=">> \o percent_encode(request.args[1])
        \o <<"&","p","a","s","s","w","o","r","d","=">> \o request.args[2]
        \o (IF Len(request.args) > 2
            THEN <<"&","s","e","r","v","i","c","e","=">> \o percent_encode(request.args[3]) ELSE <<>>)
        \o (IF Len(request.args) > 3
            THEN <<"&","r","e","m","o","t","e","=">> \o percent_encode(request.args[4]) ELSE <<>>)

K_username == <<"u","s","e","r","n","a","m","e">>
K_password == <<"p","a","s","s","w","o","r","d">>
K_password_raw == <<"p","a","s","s","w","o","r","d","_","r","a","w">>

\* HashMap::insert
MapInsert(hm, k, v) == [x \in DOMAIN hm \cup {k} |-> IF x = k THEN v ELSE hm[x]]

\* util.rs decode_post_body, the loop over the parts between "&": the key
\* is percent-decoded, the value too unless the key is "password".
RECURSIVE DecodeParts(_, _)
DecodeParts(parts, hm) ==
    IF Len(parts) = 0 THEN hm
    ELSE LET w == splitn(Head(parts), 2, "=")
             k == percent_decode(w[1])
             v == IF Len(w) > 1 THEN w[2] ELSE <<>>
         IN  IF k = K_password_raw THEN DecodeParts(Tail(parts), hm)
             ELSE IF k = K_password THEN DecodeParts(Tail(parts), MapInsert(hm, k, v))
             ELSE DecodeParts(Tail(parts), MapInsert(hm, k, percent_decode(v)))

\* util.rs decode_post_body
decode_post_body(body) == DecodeParts(split(body, "&"), [x \in {} |-> <<>>])

\* util.rs AuthInfo::from_post_body for a form body: None is ok = FALSE.
from_post_body(body) ==
    LET hm == decode_post_body(body)
    IN  IF K_username \notin DOMAIN hm \/ K_password \notin DOMAIN hm
        THEN [ok |-> FALSE, username |-> <<>>, password |-> <<>>]
        ELSE [ok |-> TRUE, username |-> hm[K_username], password |-> hm[K_password]]

\* A stored hash: its length, whether it starts with "$", and whether it is
\* a hash of the crypt(3) family of the password `of`.
Hash(len, dollar, valid, of) == [len |-> len, dollar |-> dollar, valid |-> valid, of |-> of]

\* pwhash::unix::verify
pwhash_verify(pwbytes, pwhash) == pwhash.valid /\ pwhash.of = pwbytes

\* A faulty variant: hashes of the DES length are verified like the others.
CheckUnixPasswordAllowDes(passwd, pwhash) ==
    [ok |-> pwhash_verify(percent_decode(passwd), pwhash),
     hashed |-> Some(percent_decode(passwd))]

\* util.rs check_unix_password; hashed is what it hands to the verifier.
check_unix_password(passwd, pwhash) ==
    IF pwhash.len = DES_HASH_LEN /\ ~pwhash.dollar THEN [ok |-> FALSE, hashed |-> None]
    ELSE [ok |-> pwhash_verify(percent_decode(passwd), pwhash),
          hashed |-> Some(percent_decode(passwd))]

AuthMapResult(res, hashed) == [res |-> res, hashed |-> hashed]

\* A faulty variant: a key that is not in the map is reported as an error.
AuthMapKeyNotFoundIsError(srv, username, passwd) ==
    IF ~srv.has_map THEN AuthMapResult("MapNotFound", None)
    ELSE IF srv.map_type \notin {"gdbm", "json"} THEN AuthMapResult("DbOther", None)
    ELSE IF username \notin DOMAIN srv.db THEN AuthMapResult("KeyNotFound", None)
    ELSE IF ~srv.db[username].has_passwd THEN AuthMapResult("false", None)
    ELSE LET c == check_unix_password(passwd, srv.db[username].passwd)
         IN  AuthMapResult(IF c.ok THEN "true" ELSE "false", c.hashed)

\* webnis.rs auth_map: Ok(true), Ok(false) or the error.
auth_map(srv, username, passwd) ==
    IF ~srv.has_map THEN AuthMapResult("MapNotFound", None)
    ELSE IF srv.map_type \notin {"gdbm", "json"} THEN AuthMapResult("DbOther", None)
    ELSE IF username \notin DOMAIN srv.db THEN AuthMapResult("false", None)
    ELSE IF ~srv.db[username].has_passwd THEN AuthMapResult("false", None)
    ELSE LET c == check_unix_password(passwd, srv.db[username].passwd)
         IN  AuthMapResult(IF c.ok THEN "true" ELSE "false", c.hashed)

HttpReply(status, doc, hashed) == [status |-> status, doc |-> doc, hashed |-> hashed]

\* webnis.rs handle_auth for a domain whose auth descriptor names a map:
\* the HTTP status and the JSON body of the answer.
handle_auth(srv, body) ==
    LET authinfo == from_post_body(body)
        r == auth_map(srv, authinfo.username, authinfo.password)
    IN  IF ~srv.has_domain THEN HttpReply(400, json_error(400), None)
        ELSE IF ~authinfo.ok THEN HttpReply(400, json_error(400), None)
        ELSE IF ~srv.has_auth THEN HttpReply(404, json_error(404), None)
        ELSE IF r.res = "true" THEN HttpReply(200, json_result(JObj(EmptyObj)), r.hashed)
        ELSE IF r.res = "false" THEN HttpReply(403, json_error(401), r.hashed)
        ELSE IF r.res = "MapNotFound" THEN HttpReply(404, json_error(404), None)
        ELSE HttpReply(500, json_error(500), None)

\* main.rs / response.rs: the response line as the daemon writes it, the
\* code, a space, the text and the newline of the codec.
ResponseBytes(r) == to_string(r.code) \o <<" ">> \o <<"m">> \o <<NL>>


(***************************************************************************)
(* One authentication end to end: the PAM adapter checks the items of the  *)
(* PAM handle and writes its request line, the daemon turns the line into  *)
(* the form body of a POST, the map server verifies the password, the      *)
(* daemon reshapes the answer and the adapter maps the reply line to its   *)
(* result, with the one retry of wnbind_auth.                              *)
(***************************************************************************)
MaxPwLen == 3

\* The bytes passwords are made of.
PwAlphabet == {"p", "%", "4", "5", "&", " ", ":"}
Passwords == UNION {[1..n -> PwAlphabet] : n \in 0..MaxPwLen}

\* Passwords an account may have besides the one that is typed.
AccountPws == {<<"D">>, <<"p","D">>}

U_name == <<"u">>
PlainPw == <<"p">>
OtherPw == <<"o">>

PamUsers == {Some(U_name), Some(<<>>), Some(<<"u"," ","v">>), None}
PamServices == {Some(<<"s","s","h">>), Some(<<"s",TAB>>), None}
PamRhosts == {None, Some(<<"h">>), Some(<<"h"," ","x">>), Some(<<"h",NL,"x">>)}

\* The items of a PAM handle whose user, service and remote host are well.
GoodItems(pw, rhost) ==
    [user |-> Some(U_name), authtok |-> Some(pw), service |-> Some(<<"s","s","h">>), rhost |-> rhost]

\* Entries of the auth map: a record with or without a passwd field.
Entry(hash) == [has_passwd |-> TRUE, passwd |-> hash]
NoPasswdEntry == [has_passwd |-> FALSE, passwd |-> Hash(0, FALSE, FALSE, <<>>)]

\* Stored hashes of the password pw: SHA-512 crypt ("$6$", 106 characters),
\* traditional DES crypt (13 characters), BSDi extended DES ("_", 20
\* characters); a locked account ("*"); 13 characters that start with "$"
\* and are no hash.
Sha512Of(pw) == Hash(106, TRUE, TRUE, pw)
DesOf(pw) == Hash(DES_HASH_LEN, FALSE, TRUE, pw)
BsdiOf(pw) == Hash(20, FALSE, TRUE, pw)
Locked == Hash(1, FALSE, FALSE, <<>>)
Dollar13 == Hash(DES_HASH_LEN, TRUE, FALSE, <<>>)

\* The server: its configuration for the domain and the auth map.
Server(db) ==
    [has_domain |-> TRUE, has_auth |-> TRUE, has_map |-> TRUE, map_type |-> "gdbm", db |-> db]
DbWith(name, entry) == [x \in {name} |-> entry]

AuthServers(pw) ==
    {Server(DbWith(U_name, Entry(h))) :
        h \in {Sha512Of(pw), Sha512Of(OtherPw), DesOf(pw), DesOf(OtherPw), BsdiOf(pw),
               Locked, Dollar13}}
    \cup {Server(DbWith(U_name, NoPasswdEntry)),
          Server(DbWith(<<"v">>, Entry(Sha512Of(pw)))),
          [Server(DbWith(U_name, Entry(Sha512Of(pw)))) EXCEPT !.has_map = FALSE],
          [Server(DbWith(U_name, Entry(Sha512Of(pw)))) EXCEPT !.map_type = "lua"],
          [Server(DbWith(U_name, Entry(Sha512Of(pw)))) EXCEPT !.has_auth = FALSE],
          [Server(DbWith(U_name, Entry(Sha512Of(pw)))) EXCEPT !.has_domain = FALSE]}

\* std::io::ErrorKind of a failed connect, write or read on the socket; a
\* read that runs into the timeout of the socket fails with WouldBlock.
IoErrorKinds == {"ConnectionRefused", "WouldBlock", "TimedOut", "Interrupted"}

NoHttp == HttpReply(0, JNull, None)
NoArgs == PamStop("")

\* The daemon has no session in this specification.
DaemonAtRest ==
    /\ env = "lines"
    /\ config = [nservers |-> 1, restrict_getpwuid |-> FALSE, restrict_getgrgid |-> FALSE]
    /\ http_client = [client |-> FALSE, seqno |-> 0]
    /\ ctx = [s \in Sessions |-> [uid |-> 0, gid |-> 0]]
    /\ eof = [s \in Sessions |-> FALSE]
    /\ reader = [s \in Sessions |-> "done"]
    /\ nread = [s \in Sessions |-> 0]
    /\ chan = [s \in Sessions |-> <<>>]
    /\ pc = [s \in Sessions |-> "closed"]
    /\ req = [s \in Sessions |-> NoReq]
    /\ resp = [s \in Sessions |-> NoResp]
    /\ out = [s \in Sessions |-> <<>>]
    /\ hist = [s \in Sessions |-> NoHist]

PamStart(items, srv, faulty) ==
    [stage |-> "items", items |-> items, srv |-> srv, faulty |-> faulty,
     args |-> NoArgs, tries |-> 0, trips |-> 0, slept |-> 0, faults |-> 0,
     wire |-> <<>>, body |-> <<>>, http |-> NoHttp, reply |-> <<>>,
     tried |-> <<>>, result |-> ""]

InitAuth ==
    /\ DaemonAtRest
    /\ codec = NoCodec
    /\ nss = NoNss
    /\ \/ \E pw \in Passwords : \E acct \in {pw} \cup AccountPws, rhost \in {None, Some(<<"h">>)} :
            pam = PamStart(GoodItems(pw, rhost), Server(DbWith(U_name, Entry(Sha512Of(acct)))), FALSE)
       \/ \E u \in PamUsers, t \in {Some(PlainPw), None}, sv \in PamServices, rh \in PamRhosts :
            pam = PamStart([user |-> u, authtok |-> t, service |-> sv, rhost |-> rh],
                           Server(DbWith(U_name, Entry(Sha512Of(PlainPw)))), FALSE)
       \/ \E srv \in AuthServers(PlainPw), faulty \in BOOLEAN :
            pam = PamStart(GoodItems(PlainPw, None), srv, faulty)

\* webnis.rs authenticate: the checks, then wnbind_auth is entered.
PamAuthenticate ==
    /\ pam.stage = "items"
    /\ LET a == Authenticate(pam.items)
       IN  pam' = IF a.ok THEN [pam EXCEPT !.stage = "connect", !.args = a]
                  ELSE [pam EXCEPT !.stage = "done", !.result = a.err]
    /\ UNCHANGED <<daemonVars, codecVars, nssVars>>

\* webnis.rs wnbind_try: the code of a reply line, -1 for a line without one
ReplyCode(line) == parse_u16(splitn(line, 2, " ")[1])

\* What a try ran into: an I/O error of some kind, or a reply line.
IoFailure(kind) == [io |-> TRUE, kind |-> kind, code |-> -1]
GotReply(line) == [io |-> FALSE, kind |-> "", code |-> ReplyCode(line)]

\* webnis.rs wnbind_auth: what the loop does with the result r of a try
\* that ran into t.
AfterTry(p, t, r) ==
    LET step == WnbindAuth(p.tries, r)
    IN  IF step.return
        THEN [p EXCEPT !.stage = "done", !.result = step.err, !.tried = Append(p.tried, t)]
        ELSE [p EXCEPT !.stage = "sleep", !.tried = Append(p.tried, t)]

\* webnis.rs wnbind_try: connect and write_all succeed, the line is with
\* the daemon.
WnbindWrite ==
    /\ pam.stage = "connect"
    /\ pam' = [pam EXCEPT !.stage = "sent", !.wire = RequestLine(pam.args),
                          !.trips = pam.trips + 1]
    /\ UNCHANGED <<daemonVars, codecVars, nssVars>>

\* webnis.rs wnbind_try: connect, write_all or read_line fails.
WnbindIoError(kind) ==
    /\ pam.faulty
    /\ pam.stage \in {"connect", "sent"}
    /\ pam' = [AfterTry(pam, IoFailure(kind), from_io_error(kind)) EXCEPT !.faults = pam.faults + 1]
    /\ UNCHANGED <<daemonVars, codecVars, nssVars>>

\* request.rs process: the line is parsed; an auth request becomes the body
\* of a POST, a line that does not parse is answered at once.
DaemonProcess ==
    /\ pam.stage = "sent"
    /\ LET line == LinesDecode(pam.wire)
           d == process(config, ctx[1], line)
       IN  pam' = IF d.kind = "request" /\ d.path.map = "auth"
                  THEN [pam EXCEPT !.stage = "posted", !.body = AuthBody(parse(line))]
                  ELSE [pam EXCEPT !.stage = "reply", !.reply = ResponseBytes(d.resp)]
    /\ UNCHANGED <<daemonVars, codecVars, nssVars>>

\* webnis.rs handle_auth
ServerHandleAuth ==
    /\ pam.stage = "posted"
    /\ pam' = [pam EXCEPT !.stage = "http", !.http = handle_auth(pam.srv, pam.body)]
    /\ UNCHANGED <<daemonVars, codecVars, nssVars>>

\* request.rs req_with_retries: no server answers, the last error is the
\* response.
DaemonNoServer(o) ==
    /\ pam.faulty
    /\ pam.stage = "posted"
    /\ pam' = [pam EXCEPT !.stage = "reply", !.reply = ResponseBytes(AttemptResult(o).e),
                          !.faults = pam.faults + 1]
    /\ UNCHANGED <<daemonVars, codecVars, nssVars>>

\* request.rs req_with_retries: the answer of the server is reshaped and
\* written to the socket.
DaemonReshape ==
    /\ pam.stage = "http"
    /\ LET o == Reply("response", pam.http.status, TRUE, TRUE, pam.http.doc)
           a == AttemptResult(o)
           r == IF a.ok THEN transform(o.body) ELSE a.e
       IN  pam' = [pam EXCEPT !.stage = "reply", !.reply = ResponseBytes(r)]
    /\ UNCHANGED <<daemonVars, codecVars, nssVars>>

\* The daemon closes the session without an answer: read_line returns the
\* empty line.
DaemonHangup ==
    /\ pam.faulty
    /\ pam.stage = "sent"
    /\ pam' = [pam EXCEPT !.stage = "reply", !.reply = <<>>, !.faults = pam.faults + 1]
    /\ UNCHANGED <<daemonVars, codecVars, nssVars>>

\* webnis.rs wnbind_try: the reply line is read and decoded.
WnbindRead ==
    /\ pam.stage = "reply"
    /\ pam' = AfterTry(pam, GotReply(pam.reply), WnbindReply(pam.reply))
    /\ UNCHANGED <<daemonVars, codecVars, nssVars>>

\* webnis.rs wnbind_auth: sleep(RETRY_DELAY_MS), then the next try.
WnbindSleep ==
    /\ pam.stage = "sleep"
    /\ pam' = [pam EXCEPT !.stage = "connect", !.tries = pam.tries + 1,
                          !.slept = pam.slept + RETRY_DELAY_MS,
                          !.wire = <<>>, !.body = <<>>, !.http = NoHttp, !.reply = <<>>]
    /\ UNCHANGED <<daemonVars, codecVars, nssVars>>

NextAuth ==
    \/ PamAuthenticate
    \/ WnbindWrite
    \/ \E kind \in IoErrorKinds : WnbindIoError(kind)
    \/ DaemonProcess
    \/ ServerHandleAuth
    \/ \E o \in {Reply("connect_error", 0, FALSE, FALSE, NoBody),
                 Reply("timeout", 0, FALSE, FALSE, NoBody)} : DaemonNoServer(o)
    \/ DaemonReshape
    \/ DaemonHangup
    \/ WnbindRead
    \/ WnbindSleep

SpecAuth == InitAuth /\ [][NextAuth]_vars


(***************************************************************************)
(* The NSS adapter (webnis-nss): the caller's buffer and record            *)
(* (buffer.rs).  A pointer into the buffer is its offset from the start of *)
(* the buffer; -1 is the NULL pointer in the array of members and the      *)
(* value of a pointer field the adapter has not written.                   *)
(***************************************************************************)
NUL == Chr(0)

\* write_bytes(buffer, 0, buflen)
Zeroed(buflen) == [i \in 1..buflen |-> NUL]

NoBuffer == [buflen |-> 0, bufpos |-> 0, res |-> "Ok", bytes |-> <<>>, apos |-> 0, array |-> <<>>]

\* buffer.rs Buffer::new; Err(e) is ok = FALSE.
Buffer_new(buflen) ==
    IF buflen < BUFFER_MIN_LEN
    THEN [ok |-> FALSE, err |-> "InsufficientBuffer", buf |-> NoBuffer]
    ELSE [ok |-> TRUE, err |-> "",
          buf |-> [buflen |-> buflen, bufpos |-> BUFFER_START, res |-> "Ok",
                   bytes |-> Zeroed(buflen), apos |-> 0, array |-> <<>>]]

\* buffer.rs Buffer::reset
Buffer_reset(b) ==
    [b EXCEPT !.bytes = Zeroed(b.buflen), !.bufpos = BUFFER_START, !.res = "Ok",
              !.apos = 0, !.array = <<>>]

AddFailed(b) == [ok |-> FALSE, ptr |-> -1, buf |-> b]

\* copy_nonoverlapping(item, buffer + bufpos, item.len())
CopyInto(bytes, pos, item) ==
    [i \in 1..Len(bytes) |->
        IF i > pos /\ i <= pos + Len(item) THEN item[i - pos] ELSE bytes[i]]

\* A faulty variant: the string is copied without a look at the space left.
AddStringUnchecked(b, item) ==
    IF b.res # "Ok" THEN AddFailed(b)
    ELSE [ok |-> TRUE, ptr |-> b.bufpos,
          buf |-> [b EXCEPT !.bytes = CopyInto(b.bytes, b.bufpos, item),
                            !.bufpos = b.bufpos + Len(item) + 1]]

\* buffer.rs Buffer::add_string
add_string(b, item) ==
    IF b.res # "Ok" THEN AddFailed(b)
    ELSE IF b.bufpos + Len(item) + 1 >= b.buflen
         THEN AddFailed([b EXCEPT !.res = "InsufficientBuffer"])
    ELSE [ok |-> TRUE, ptr |-> b.bufpos,
          buf |-> [b EXCEPT !.bytes = CopyInto(b.bytes, b.bufpos, item),
                            !.bufpos = b.bufpos + Len(item) + 1]]

\* buffer.rs Buffer::add_members, its loop over the members from idx on
RECURSIVE AddMemberStrings(_, _, _)
AddMemberStrings(b, members, idx) ==
    IF idx > Len(members) THEN [ok |-> TRUE, ptr |-> b.apos, buf |-> b]
    ELSE LET r == add_string(b, members[idx])
         IN  IF r.ok
             THEN AddMemberStrings([r.buf EXCEPT !.array[idx] = r.ptr], members, idx + 1)
             ELSE AddFailed(r.buf)

\* buffer.rs Buffer::add_members
add_members(b, members) ==
    LET amt == Len(members)
        apos == 8 * ((b.bufpos + 7) \div 8)
        sz == (amt + 1) * POINTER_SIZE
    IN  IF b.res # "Ok" THEN AddFailed(b)
        ELSE IF apos + sz >= b.buflen
             THEN AddFailed([b EXCEPT !.res = "InsufficientBuffer"])
        ELSE AddMemberStrings([b EXCEPT !.bufpos = apos + sz, !.apos = apos,
                                        !.array = [i \in 1..(amt + 1) |-> -1]],
                              members, 1)

\* CStr::from_ptr(buffer + ptr): the bytes up to the first NUL.
RECURSIVE CStr(_, _)
CStr(bytes, ptr) ==
    IF ptr < 0 \/ ptr >= Len(bytes) THEN <<>>
    ELSE IF bytes[ptr + 1] = NUL THEN <<>>
    ELSE <<bytes[ptr + 1]>> \o CStr(bytes, ptr + 1)

\* The strings of a NULL-terminated array of pointers.
RECURSIVE CStrArray(_, _)
CStrArray(bytes, array) ==
    IF Len(array) = 0 \/ Head(array) = -1 THEN <<>>
    ELSE <<CStr(bytes, Head(array))>> \o CStrArray(bytes, Tail(array))

\* struct passwd and struct group as the caller hands them in.
CallerPasswd ==
    [pw_name |-> -1, pw_passwd |-> -1, pw_uid |-> 0, pw_gid |-> 0,
     pw_gecos |-> -1, pw_dir |-> -1, pw_shell |-> -1]
CallerGroup == [gr_name |-> -1, gr_passwd |-> -1, gr_gid |-> 0, gr_mem |-> -1]

\* buffer.rs Passwd::reset
Passwd_reset(p) ==
    [pwd |-> [pw_name |-> 0, pw_passwd |-> 0, pw_uid |-> 0, pw_gid |-> 0,
              pw_gecos |-> 0, pw_dir |-> 0, pw_shell |-> 0],
     buffer |-> Buffer_reset(p.buffer)]

\* buffer.rs Passwd::new; the record is not NULL.
Passwd_new(pwd, buflen) ==
    LET b == Buffer_new(buflen)
    IN  IF ~b.ok THEN [ok |-> FALSE, err |-> b.err, pw |-> [pwd |-> pwd, buffer |-> b.buf]]
        ELSE [ok |-> TRUE, err |-> "", pw |-> Passwd_reset([pwd |-> pwd, buffer |-> b.buf])]

\* buffer.rs Passwd::set_name, set_passwd, set_gecos, set_home, set_shell:
\* the pointer is set if the string went into the buffer.
PasswdSetString(p, field, item) ==
    LET r == add_string(p.buffer, item)
    IN  [pwd |-> IF r.ok THEN [p.pwd EXCEPT ![field] = r.ptr] ELSE p.pwd, buffer |-> r.buf]

\* buffer.rs Passwd::set_uid, set_gid
Passwd_set_uid(p, uid) == [p EXCEPT !.pwd.pw_uid = uid]
Passwd_set_gid(p, gid) == [p EXCEPT !.pwd.pw_gid = gid]

\* buffer.rs Group::reset
Group_reset(g) ==
    [grp |-> [gr_name |-> 0, gr_passwd |-> 0, gr_gid |-> 0, gr_mem |-> 0],
     buffer |-> Buffer_reset(g.buffer)]

\* buffer.rs Group::new; the record is not NULL.
Group_new(grp, buflen) ==
    LET b == Buffer_new(buflen)
    IN  IF ~b.ok THEN [ok |-> FALSE, err |-> b.err, gr |-> [grp |-> grp, buffer |-> b.buf]]
        ELSE [ok |-> TRUE, err |-> "", gr |-> Group_reset([grp |-> grp, buffer |-> b.buf])]

\* buffer.rs Group::set_name, set_passwd
GroupSetString(g, field, item) ==
    LET r == add_string(g.buffer, item)
    IN  [grp |-> IF r.ok THEN [g.grp EXCEPT ![field] = r.ptr] ELSE g.grp, buffer |-> r.buf]

\* buffer.rs Group::set_gid
Group_set_gid(g, gid) == [g EXCEPT !.grp.gr_gid = gid]

\* buffer.rs Group::set_members
Group_set_members(g, members) ==
    LET r == add_members(g.buffer, members)
    IN  [grp |-> IF r.ok THEN [g.grp EXCEPT !.gr_mem = r.ptr] ELSE g.grp, buffer |-> r.buf]


(***************************************************************************)
(* The NSS adapter: the lookup against the daemon and the decoding of its  *)
(* reply (webnis-nss webnis.rs), the errors (nss.rs).                      *)
(***************************************************************************)
NssOk(val) == [ok |-> TRUE, val |-> val, err |-> ""]
NssErr(e) == [ok |-> FALSE, val |-> <<>>, err |-> e]

\* str::trim_right()
RECURSIVE trim_right(_)
trim_right(s) ==
    IF Len(s) > 0 /\ is_whitespace(s[Len(s)]) THEN trim_right(SubSeq(s, 1, Len(s) - 1))
    ELSE s

\* webnis.rs duration_millis: d.as_secs() + d.subsec_millis(), for a
\* duration of ms milliseconds.
duration_millis(ms) == (ms \div 1000) + (ms % 1000)

\* nss.rs impl From<std::io::Error> for NssError
NssError_from(kind) ==
    IF kind \in {"TimedOut", "Interrupted"} THEN "TimedOut"
    ELSE IF kind \in {"ConnectionRefused", "ConnectionReset", "ConnectionAborted",
                      "NotConnected", "BrokenPipe", "UnexpectedEof"} THEN "TryAgainNow"
    ELSE "Unavailable"

\* webnis.rs wnbind_try: the request line, format!("{} {}\n", cmd, arg)
NssRequestLine(cmd, arg) == cmd \o <<" ">> \o arg \o <<NL>>

\* webnis.rs wnbind_try, from the reply line on
NssWnbindReply(line) ==
    LET s == splitn(trim_right(line), 2, " ")
        num == s[1]
        val == IF Len(s) > 1 THEN s[2] ELSE <<>>
        code == parse_u16(num)
    IN  IF code < 0 THEN NssErr("Unavailable")
        ELSE IF code >= 200 /\ code <= 299 THEN NssOk(val)
        ELSE IF code \in {401, 403} THEN NssErr("Unavailable")
        ELSE IF code = 404 THEN NssErr("NotFound")
        ELSE IF code >= 400 /\ code <= 499 THEN NssErr("TryAgainLater")
        ELSE NssErr("Unavailable")

\* webnis.rs wnbind_get, the head of its loop: the budget is used up.
BudgetUsed(elapsed) == duration_millis(elapsed) > MAX_TIMEOUT_MS

\* webnis.rs wnbind_get, after Err(TryAgainNow): whether it sleeps.
SleepsBeforeRetry(elapsed) == duration_millis(elapsed) + NSS_RETRY_DELAY_MS < MAX_TIMEOUT_MS

\* webnis.rs wnbind_get, what the loop does with the result r of a try:
\* return it, or go round again.
WnbindGet(r) ==
    IF r.ok THEN (IF \E i \in 1..Len(r.val) : r.val[i] = NUL
                  THEN [return |-> TRUE, res |-> NssErr("Unavailable")]
                  ELSE [return |-> TRUE, res |-> r])
    ELSE IF r.err \in {"NotFound", "TryAgainLater", "InsufficientBuffer", "Unavailable"}
         THEN [return |-> TRUE, res |-> r]
    ELSE [return |-> FALSE, res |-> r]

DecodedPasswd(res, pw) == [res |-> res, pw |-> pw]

\* webnis.rs decode_passwd
decode_passwd(pwd, line) ==
    LET fields == split(line, ":")
    IN  IF Len(fields) # 7 THEN DecodedPasswd("Unavailable", pwd)
        ELSE IF Len(fields[1]) = 0 THEN DecodedPasswd("Unavailable", pwd)
        ELSE IF parse_u32(fields[3]) < 0 THEN DecodedPasswd("Unavailable", pwd)
        ELSE IF parse_u32(fields[4]) < 0 THEN DecodedPasswd("Unavailable", pwd)
        ELSE LET p1 == PasswdSetString(pwd, "pw_name", fields[1])
                 p2 == PasswdSetString(p1, "pw_passwd", fields[2])
                 p3 == Passwd_set_uid(p2, parse_u32(fields[3]))
                 p4 == Passwd_set_gid(p3, parse_u32(fields[4]))
                 p5 == PasswdSetString(p4, "pw_gecos", fields[5])
                 p6 == PasswdSetString(p5, "pw_dir", fields[6])
                 p7 == PasswdSetString(p6, "pw_shell", fields[7])
             IN  DecodedPasswd(p7.buffer.res, p7)

DecodedGroup(res, gr) == [res |-> res, gr |-> gr]

\* webnis.rs decode_group
decode_group(grp, line) ==
    LET fields == split(line, ":")
    IN  IF Len(fields) # 4 THEN DecodedGroup("Unavailable", grp)
        ELSE IF Len(fields[1]) = 0 THEN DecodedGroup("Unavailable", grp)
        ELSE IF parse_u32(fields[3]) < 0 THEN DecodedGroup("Unavailable", grp)
        ELSE LET g1 == GroupSetString(grp, "gr_name", fields[1])
                 g2 == GroupSetString(g1, "gr_passwd", fields[2])
                 g3 == Group_set_gid(g2, parse_u32(fields[3]))
                 g4 == Group_set_members(g3, split(fields[4], ","))
             IN  DecodedGroup(g4.buffer.res, g4)

\* nss.rs nss_error: the errno and the NssStatus
nss_error(err) ==
    IF err = "InsufficientBuffer" THEN [errno |-> "ERANGE", status |-> "TryAgain"]
    ELSE IF err = "NotFound" THEN [errno |-> "ENOENT", status |-> "NotFound"]
    ELSE IF err = "Unavailable" THEN [errno |-> "EAGAIN", status |-> "Unavailable"]
    ELSE IF err \in {"TryAgainLater", "TryAgainNow"} THEN [errno |-> "EAGAIN", status |-> "TryAgain"]
    ELSE [errno |-> "ETIMEDOUT", status |-> "TryAgain"]

\* nss.rs nss_result: errno is written on an error only.
nss_result(res, errno) ==
    IF res = "Ok" THEN [errno |-> errno, status |-> "Success"] ELSE nss_error(res)


(***************************************************************************)
(* One thread that calls the entry points of the NSS adapter (nss.rs), one *)
(* call after the other.  The daemon answers a lookup from its maps; when  *)
(* the run is faulty the socket may fail and the daemon may answer with    *)
(* other lines.  Time is counted in milliseconds since wnbind_get began.   *)
(***************************************************************************)
MaxCalls == 2
MaxBufLen == 56
ElapsedCap == 3000

N_bob == <<"b","o","b">>
N_al == <<"a","l">>
N_grp == <<"g","r","p">>
N_adm == <<"a","d","m">>
N_one == <<"o","n","e">>
N_all == <<"a","l","l">>

BobLine == <<"b","o","b",":","x",":","5",":","5",":","B","o","b",":","/","h","/","b",":","/","b","i","n","/","s","h">>
BobStale == <<"b","o","b",":","x",":","5",":","5",":","R","o","b","e","r","t",":","/","h","/","b",":","/","b","i","n","/","s","h">>
AlLine == <<"a","l",":","x",":","6",":","6",":","A","l",":","/","h","/","a",":","/","b","i","n","/","s","h">>
GrpLine == <<"g","r","p",":","x",":","7",":","b","o","b",",","a","l">>
\* Groups of no, one and three members.
AdmLine == <<"a","d","m",":","x",":","4",":">>
OneLine == <<"o","n","e",":","x",":","8",":","b","o","b">>
AllLine == <<"a","l","l",":","x",":","9",":","a",",","b",",","c">>

\* The uids of the entries.
UID_bob == parse_u32(split(BobLine, ":")[3])
UID_al == parse_u32(split(AlLine, ":")[3])

\* The maps of the daemon: passwd by name and by uid, group by name.
NssDb(pwnam, pwuid, grnam) == [getpwnam |-> pwnam, getpwuid |-> pwuid, getgrnam |-> grnam]
Row(k, line) == [x \in {k} |-> line]
NoRows == [x \in {} |-> <<>>]

Groups == Row(N_grp, GrpLine) @@ Row(N_adm, AdmLine) @@ Row(N_one, OneLine) @@ Row(N_all, AllLine)
GroupNames == {N_grp, N_adm, N_one, N_all}

NssDbs ==
    { NssDb(Row(N_bob, BobLine) @@ Row(N_al, AlLine),
            Row(to_string(UID_bob), BobLine) @@ Row(to_string(UID_al), AlLine), Groups),
      \* the uid index lags behind the index by name
      NssDb(Row(N_bob, BobLine) @@ Row(N_al, AlLine), Row(to_string(UID_al), AlLine), Groups),
      \* the uid index holds an older, longer entry
      NssDb(Row(N_bob, BobLine), Row(to_string(UID_bob), BobStale), Groups),
      \* the name bob now has the uid of al
      NssDb(Row(N_bob, AlLine), Row(to_string(UID_al), AlLine), NoRows),
      \* entries the adapter refuses
      NssDb(Row(N_bob, <<"b","o","b",":","x",":","5",":","5",":","B","o","b",":","/","h","/","b">>) @@ Row(N_al, <<"a","l",":","x",":","6",":","y",":","A","l",":","/","h","/","a",":","/","b","i","n","/","s","h">>),
            Row(to_string(UID_bob), <<":","x",":","5",":","5",":","B","o","b",":","/","h","/","b",":","/","b","i","n","/","s","h">>)
                @@ Row(to_string(UID_al), <<"a","l",":","x",":","-","6",":","6",":","A","l",":","/","h","/","a",":","/","b","i","n","/","s","h">>),
            Row(N_grp, <<"g","r","p",":","x",":","x",":","b","o","b">>)) }

HealthyDb == NssDb(Row(N_bob, BobLine), Row(to_string(UID_bob), BobLine), Groups)

\* The line the daemon answers to "cmd arg".
DaemonReply(db, cmd, arg) ==
    LET map == IF cmd = V_getpwnam THEN db.getpwnam
               ELSE IF cmd = V_getpwuid THEN db.getpwuid ELSE db.getgrnam
    IN  IF arg \in DOMAIN map THEN <<"2","0","0"," ">> \o map[arg] \o <<NL>>
        ELSE <<"4","0","4"," ","N","o","t"," ","F","o","u","n","d">> \o <<NL>>

\* Other lines a reader of the socket may get; the empty line is the end
\* of the stream.
OddReplies ==
    { <<"4","0","0"," ","B","a","d"," ","R","e","q","u","e","s","t">> \o <<NL>>, <<"4","0","1"," ","U","n","a","u","t","h","o","r","i","z","e","d">> \o <<NL>>,
      <<"4","0","3"," ","F","o","r","b","i","d","d","e","n">> \o <<NL>>, <<"5","0","0"," ","I","n","t","e","r","n","a","l">> \o <<NL>>,
      <<"h","e","l","l","o">> \o <<NL>>, <<>>, <<"2","0","0"," ","a",NUL,"b",NL>> }

\* std::io::ErrorKind of a failed connect, write or read, and the time the
\* failed attempt took.
NssIoErrorKinds == {"ConnectionRefused", "ConnectionReset", "TimedOut", "WouldBlock"}
AttemptMs == {0, REQUEST_READ_TIMEOUT_MS}

\* The bytes a passwd or group reply needs in the buffer: the first
\* pointer-sized slot, every string with its NUL, and for a group the
\* aligned array of pointers with its NULL.
RECURSIVE StringBytes(_)
StringBytes(strings) ==
    IF Len(strings) = 0 THEN 0 ELSE Len(Head(strings)) + 1 + StringBytes(Tail(strings))

NeededPasswd(line) ==
    LET f == split(line, ":")
    IN  BUFFER_START + StringBytes(<<f[1], f[2], f[5], f[6], f[7]>>)

NeededGroup(line) ==
    LET f == split(line, ":")
        m == split(f[4], ",")
        head == BUFFER_START + StringBytes(<<f[1], f[2]>>)
    IN  8 * ((head + 7) \div 8) + (Len(m) + 1) * POINTER_SIZE + StringBytes(m)

NssBuflens ==
    {BUFFER_MIN_LEN - 1, BUFFER_MIN_LEN, MaxBufLen}
    \cup UNION {{n - 1, n, n + 1} : n \in {NeededPasswd(BobLine), NeededPasswd(BobStale),
                                           NeededPasswd(AlLine), NeededGroup(GrpLine)}}

LastUid(username, uid) == [some |-> TRUE, username |-> username, uid |-> uid]
NoLastUid == [some |-> FALSE, username |-> <<>>, uid |-> 0]

NssCallOf(fn, name, uid, buflen) == [fn |-> fn, name |-> name, uid |-> uid, buflen |-> buflen]
NoCall == NssCallOf("", <<>>, 0, 0)
NoPrev == [fn |-> "", name |-> <<>>, status |-> "", pw_uid |-> 0]

NssCalls(faulty) ==
    {NssCallOf("getpwnam_r", name, 0, buflen) :
        name \in {N_bob, N_al}, buflen \in IF faulty THEN {MaxBufLen} ELSE NssBuflens}
    \cup {NssCallOf("getpwuid_r", <<>>, uid, buflen) :
        uid \in {UID_bob, UID_al}, buflen \in IF faulty THEN {MaxBufLen} ELSE NssBuflens}
    \cup {NssCallOf("getgrnam_r", name, 0, buflen) :
        name \in GroupNames, buflen \in IF faulty THEN {MaxBufLen} ELSE NssBuflens}

NoPasswd == [pwd |-> CallerPasswd, buffer |-> NoBuffer]
NoGroup == [grp |-> CallerGroup, buffer |-> NoBuffer]

NssStart(db, faulty) ==
    [stage |-> "idle", db |-> db, faulty |-> faulty, calls |-> 0,
     last_uid |-> NoLastUid, prev |-> NoPrev, call |-> NoCall,
     phase |-> "", cmd |-> <<>>, arg |-> <<>>,
     elapsed |-> 0, slept |-> 0, transient |-> TRUE,
     direct |-> "", byname |-> "", fellback |-> FALSE,
     pw |-> NoPasswd, gr |-> NoGroup, res |-> "", status |-> "", errno |-> "0"]

InitNss ==
    /\ DaemonAtRest
    /\ codec = NoCodec
    /\ pam = NoPam
    /\ \/ \E db \in NssDbs : nss = NssStart(db, FALSE)
       \/ nss = NssStart(HealthyDb, TRUE)

\* The entry point returns: nss_result writes errno and gives the status.
NssReturn(n, res) ==
    LET r == nss_result(res, n.errno)
    IN  [n EXCEPT !.stage = "idle", !.calls = n.calls + 1, !.res = res,
                  !.status = r.status, !.errno = r.errno]

\* webnis.rs wnbind_get, the head of its loop: give up when the budget is
\* used, else the next try begins.
LoopHead(n, giveup) ==
    IF BudgetUsed(n.elapsed) THEN giveup
    ELSE [n EXCEPT !.stage = "try"]

\* webnis.rs wnbind_get is entered for "cmd arg".
EnterGet(n, cmd, arg) ==
    [n EXCEPT !.stage = "try", !.cmd = cmd, !.arg = arg,
              !.phase = IF n.phase = "new" THEN "direct" ELSE n.phase,
              !.elapsed = 0, !.slept = 0, !.transient = TRUE]

\* nss.rs _nss_webnis_getpwuid_r: the last lookup by name had the same uid.
UsesLastUid(lastuid, uid) == lastuid.some /\ lastuid.uid = uid

\* webnis.rs getpwnam / getpwuid: the reply is decoded into the record.
DecodePasswdReply(n, got) ==
    IF got.ok THEN decode_passwd(n.pw, got.val) ELSE DecodedPasswd(got.err, n.pw)

\* webnis.rs getgrnam
DecodeGroupReply(n, got) ==
    IF got.ok THEN decode_group(n.gr, got.val) ELSE DecodedGroup(got.err, n.gr)

\* A faulty variant: the record is not reset before the lookup by name.
GetpwuidAfterDirectNoReset(n, got) ==
    LET d == DecodePasswdReply(n, got)
        m == [n EXCEPT !.pw = d.pw, !.direct = d.res]
    IN  IF d.res = "Ok" THEN NssReturn(m, d.res)
        ELSE IF UsesLastUid(n.last_uid, n.call.uid)
             THEN EnterGet([m EXCEPT !.phase = "fallback", !.fellback = TRUE],
                           V_getpwnam, n.last_uid.username)
        ELSE NssReturn(m, d.res)

\* nss.rs _nss_webnis_getpwuid_r, after the lookup by uid has returned.
GetpwuidAfterDirect(n, got) ==
    LET d == DecodePasswdReply(n, got)
        m == [n EXCEPT !.pw = d.pw, !.direct = d.res]
    IN  IF d.res = "Ok" THEN NssReturn(m, d.res)
        ELSE IF UsesLastUid(n.last_uid, n.call.uid)
             THEN EnterGet([m EXCEPT !.pw = Passwd_reset(d.pw), !.phase = "fallback",
                                     !.fellback = TRUE],
                           V_getpwnam, n.last_uid.username)
        ELSE NssReturn(m, d.res)

\* nss.rs _nss_webnis_getpwnam_r, after the lookup has returned: the name
\* and the uid of the record are remembered when it succeeded.
GetpwnamAfter(n, got) ==
    LET d == DecodePasswdReply(n, got)
        m == [n EXCEPT !.pw = d.pw]
    IN  IF d.res = "Ok"
        THEN NssReturn([m EXCEPT !.last_uid = LastUid(n.call.name, d.pw.pwd.pw_uid)], d.res)
        ELSE NssReturn(m, d.res)

\* The entry point goes on with the result of wnbind_get.
AfterGet(n, got) ==
    IF n.call.fn = "getpwnam_r" THEN GetpwnamAfter(n, got)
    ELSE IF n.call.fn = "getgrnam_r"
         THEN LET d == DecodeGroupReply(n, got)
              IN  NssReturn([n EXCEPT !.gr = d.gr], d.res)
    ELSE IF n.phase = "direct" THEN GetpwuidAfterDirect(n, got)
    ELSE LET d == DecodePasswdReply(n, got)
         IN  NssReturn([n EXCEPT !.pw = d.pw, !.byname = d.res], d.res)

\* nss.rs _nss_webnis_getpwnam_r, _nss_webnis_getpwuid_r and
\* _nss_webnis_getgrnam_r up to the first try of wnbind_get.
NssCall(c) ==
    /\ nss.stage = "idle"
    /\ nss.calls < MaxCalls
    /\ LET n == [nss EXCEPT !.call = c, !.phase = "new", !.direct = "", !.byname = "",
                            !.transient = FALSE,
                            !.fellback = FALSE, !.res = "", !.status = "", !.errno = "0",
                            !.pw = NoPasswd, !.gr = NoGroup,
                            !.prev = [fn |-> nss.call.fn, name |-> nss.call.name,
                                      status |-> nss.status, pw_uid |-> nss.pw.pwd.pw_uid]]
           p == Passwd_new(CallerPasswd, c.buflen)
           g == Group_new(CallerGroup, c.buflen)
       IN  nss' = IF c.fn = "getgrnam_r"
                  THEN (IF g.ok THEN EnterGet([n EXCEPT !.gr = g.gr], V_getgrnam, c.name)
                        ELSE NssReturn([n EXCEPT !.gr = g.gr], g.err))
                  ELSE IF ~p.ok THEN NssReturn([n EXCEPT !.pw = p.pw], p.err)
                  ELSE IF c.fn = "getpwnam_r"
                       THEN EnterGet([n EXCEPT !.pw = p.pw], V_getpwnam, c.name)
                  ELSE EnterGet([n EXCEPT !.pw = p.pw], V_getpwuid, to_string(c.uid))
    /\ UNCHANGED <<daemonVars, codecVars, pamVars>>

\* webnis.rs wnbind_get, what follows a try with the result r that took ms
\* milliseconds: return, or sleep, and go round the loop.
AfterNssTry(n, r, ms) ==
    LET step == WnbindGet(r)
        t == n.elapsed + ms
        sleeps == r.err = "TryAgainNow" /\ SleepsBeforeRetry(t)
        m == [n EXCEPT !.transient = n.transient /\ ~r.ok /\ r.err \in {"TryAgainNow", "TimedOut"},
                       !.elapsed = IF sleeps THEN t + NSS_RETRY_DELAY_MS ELSE t,
                       !.slept = IF sleeps THEN n.slept + 1 ELSE n.slept]
    IN  IF step.return THEN AfterGet([n EXCEPT !.elapsed = t, !.transient = FALSE], step.res)
        ELSE LoopHead(m, AfterGet(m, NssErr("TryAgainLater")))

\* webnis.rs wnbind_try: the daemon answers from its maps.
NssTryReply ==
    /\ nss.stage = "try"
    /\ nss' = AfterNssTry(nss, NssWnbindReply(DaemonReply(nss.db, nss.cmd, nss.arg)), 0)
    /\ UNCHANGED <<daemonVars, codecVars, pamVars>>

\* webnis.rs wnbind_try: another line is read from the socket.
NssTryOddReply(line) ==
    /\ nss.faulty
    /\ nss.stage = "try"
    /\ nss' = AfterNssTry(nss, NssWnbindReply(line), 0)
    /\ UNCHANGED <<daemonVars, codecVars, pamVars>>

\* webnis.rs wnbind_try: connect, write_all or read_line fails after ms
\* milliseconds.
NssTryIoError(kind, ms) ==
    /\ nss.faulty
    /\ nss.stage = "try"
    /\ nss.elapsed + ms <= ElapsedCap
    /\ nss' = AfterNssTry(nss, NssErr(NssError_from(kind)), ms)
    /\ UNCHANGED <<daemonVars, codecVars, pamVars>>

NextNss ==
    \/ \E c \in NssCalls(nss.faulty) : NssCall(c)
    \/ NssTryReply
    \/ \E line \in OddReplies : NssTryOddReply(line)
    \/ \E kind \in NssIoErrorKinds, ms \in AttemptMs : NssTryIoError(kind, ms)

SpecNss == InitNss /\ [][NextNss]_vars

\* The maps the daemon answers from are those of the server, which takes a
\* map file that was replaced into use (webnis-server db.rs gdbm_check):
\* between two calls of the adapter the entries may have changed.  The
\* thread's remembered (username, uid) stays as it is.
NssMapsChange(db) ==
    /\ nss.stage = "idle" /\ nss.calls >= 1 /\ ~nss.faulty
    /\ db # nss.db
    /\ nss' = [nss EXCEPT !.db = db]
    /\ UNCHANGED <<daemonVars, codecVars, pamVars>>

NextNssDrift ==
    \/ NextNss
    \/ \E db \in NssDbs : NssMapsChange(db)

SpecNssDrift == InitNss /\ [][NextNssDrift]_vars


(***************************************************************************)
(* The NSS adapter: initgroups (nss.rs _nss_webnis_initgroups_dyn).  The   *)
(* array of the caller is the sequence of its slots, slot i of the array   *)
(* is element i + 1; -1 is a slot nobody has written, EarlierGid a gid an  *)
(* earlier module has stored.                                              *)
(***************************************************************************)
MaxSlots == 3
\* size_of::<gid_t>()
GID_SIZE == 4
MaxGids == 3
EarlierGid == 0 - 2

\* webnis.rs decode_gidlist: Ok(gids), or the error.
RECURSIVE ParseGids(_)
ParseGids(parts) ==
    IF Len(parts) = 0 THEN [ok |-> TRUE, gids |-> <<>>]
    ELSE IF parse_u32(Head(parts)) < 0 THEN [ok |-> FALSE, gids |-> <<>>]
    ELSE LET rest == ParseGids(Tail(parts))
         IN  [ok |-> rest.ok, gids |-> <<parse_u32(Head(parts))>> \o rest.gids]

decode_gidlist(line) ==
    LET fields == split(line, ":")
    IN  IF Len(fields) # 2 THEN [ok |-> FALSE, err |-> "Unavailable", gids |-> <<>>]
        ELSE IF ~ParseGids(split(fields[2], ",")).ok
             THEN [ok |-> FALSE, err |-> "Unavailable", gids |-> <<>>]
        ELSE [ok |-> TRUE, err |-> "", gids |-> ParseGids(split(fields[2], ",")).gids]

\* user_gids.into_iter().filter(|&g| g != skipgid).collect()
FilterSkip(gids, skipgid) == SelectSeq(gids, LAMBDA g : g # skipgid)

\* libc::realloc(*gidsp, bytes): the array holds bytes / sizeof(gid_t)
\* slots, the slots it had are kept.
Realloc(array, bytes) ==
    [i \in 1..(bytes \div GID_SIZE) |-> IF i <= Len(array) THEN array[i] ELSE -1]

\* nss.rs _nss_webnis_initgroups_dyn, its loop `for gid in user_gids`: a
\* store into a slot the slice of length arraysz does not have panics, a
\* store into a slot of the slice that the allocation does not have is
\* written behind the array.
RECURSIVE StoreGids(_, _, _, _)
StoreGids(st, gids, arraysz, limit) ==
    IF Len(gids) = 0 THEN st
    ELSE IF st.idx >= arraysz THEN [st EXCEPT !.panic = TRUE]
    ELSE LET st1 == [st EXCEPT
                        !.array = IF st.idx < Len(st.array)
                                  THEN [st.array EXCEPT ![st.idx + 1] = Head(gids)]
                                  ELSE st.array,
                        !.behind = IF st.idx < Len(st.array) THEN st.behind
                                   ELSE Append(st.behind, st.idx),
                        !.stored = Append(st.stored, [at |-> st.idx, gid |-> Head(gids)]),
                        !.idx = st.idx + 1]
         IN  IF st1.idx = limit THEN st1
             ELSE StoreGids(st1, Tail(gids), arraysz, limit)

IgResult(status, errno, start, size, st) ==
    [status |-> status, errno |-> errno, start |-> start, size |-> size,
     array |-> st.array, stored |-> st.stored, behind |-> st.behind, panic |-> st.panic]

\* nss.rs _nss_webnis_initgroups_dyn, from the result got of
\* webnis.getgidlist(name) on.
initgroups_dyn(got, skipgid, start, size, array, limit) ==
    LET user_gids == FilterSkip(got.gids, skipgid)
        st0 == [idx |-> start, array |-> array, stored |-> <<>>, behind |-> <<>>, panic |-> FALSE]
        grows == start + Len(user_gids) > size
        new_sz0 == start + Len(user_gids)
        new_sz1 == IF limit = 0 THEN new_sz0 ELSE (IF new_sz0 < limit THEN new_sz0 ELSE limit)
        new_sz == new_sz1 * GID_SIZE
        gid_arraysz == IF grows THEN new_sz ELSE size
        st == StoreGids([st0 EXCEPT !.array = IF grows THEN Realloc(array, new_sz) ELSE array],
                        user_gids, gid_arraysz, limit)
    IN  IF ~got.ok
        THEN IgResult(nss_error(got.err).status, nss_error(got.err).errno, start, size, st0)
        ELSE IF Len(user_gids) = 0 THEN IgResult("Success", "0", start, size, st0)
        ELSE IF st.panic THEN IgResult("panic", "0", start, gid_arraysz, st)
        ELSE IgResult("Success", "0", st.idx, gid_arraysz, st)

\* The arguments of a call: the array has size slots, start of them are
\* filled; with a limit the array is no larger than the limit.
SampleGids == {1, 2, 3}
GidLists == UNION {[1..n -> SampleGids] : n \in 0..MaxGids}

\* The line of the daemon for a list of gids (response.rs Gidlist::to_line).
RECURSIVE GidStrings(_)
GidStrings(gids) ==
    IF Len(gids) = 0 THEN <<>> ELSE <<to_string(Head(gids))>> \o GidStrings(Tail(gids))
GidlistLine(gids) == N_bob \o <<":">> \o join(GidStrings(gids), ",")

IgArgs ==
    {a \in [start : 0..MaxSlots, size : 0..MaxSlots, limit : 0..MaxSlots, skipgid : {0, 1}] :
        /\ a.start <= a.size
        /\ a.limit = 0 \/ a.size <= a.limit}

CallerArray(a) == [i \in 1..a.size |-> IF i <= a.start THEN EarlierGid ELSE -1]

\* The gidlist map of the daemon: the user has a list of gids, or is not
\* in the map.
GidlistDbs ==
    {[getgidlist |-> Row(N_bob, GidlistLine(gids))] : gids \in GidLists}
    \cup {[getgidlist |-> NoRows]}

GidlistReply(db, arg) ==
    IF arg \in DOMAIN db.getgidlist
    THEN <<"2","0","0"," ">> \o db.getgidlist[arg] \o <<NL>>
    ELSE <<"4","0","4"," ","N","o","t"," ","F","o","u","n","d">> \o <<NL>>

NoIgResult ==
    [status |-> "", errno |-> "0", start |-> 0, size |-> 0, array |-> <<>>,
     stored |-> <<>>, behind |-> <<>>, panic |-> FALSE]

InitInitgroups ==
    /\ DaemonAtRest
    /\ codec = NoCodec
    /\ pam = NoPam
    /\ \E db \in GidlistDbs :
          nss = [stage |-> "ig_idle", db |-> db, a |-> CHOOSE a \in IgArgs : TRUE,
                 array |-> <<>>, got |-> NssErr(""), out |-> NoIgResult]

\* nss.rs _nss_webnis_initgroups_dyn up to the try of wnbind_get
InitgroupsCall(a) ==
    /\ nss.stage = "ig_idle"
    /\ nss' = [nss EXCEPT !.stage = "ig_try", !.a = a, !.array = CallerArray(a)]
    /\ UNCHANGED <<daemonVars, codecVars, pamVars>>

\* webnis.rs getgidlist: the result of wnbind_get is decoded.
getgidlist(r) ==
    IF ~r.ok THEN [ok |-> FALSE, err |-> r.err, gids |-> <<>>]
    ELSE decode_gidlist(r.val)

\* The entry point goes on with the line read from the socket; a line
\* wnbind_get does not return with is not read here.
InitgroupsAfterTry(n, line) ==
    LET step == WnbindGet(NssWnbindReply(line))
        got == getgidlist(step.res)
    IN  [n EXCEPT !.stage = "ig_done", !.got = got,
                  !.out = initgroups_dyn(got, n.a.skipgid, n.a.start, n.a.size,
                                         n.array, n.a.limit)]

InitgroupsTryReply ==
    /\ nss.stage = "ig_try"
    /\ nss' = InitgroupsAfterTry(nss, GidlistReply(nss.db, N_bob))
    /\ UNCHANGED <<daemonVars, codecVars, pamVars>>

InitgroupsTryOddReply(line) ==
    /\ nss.stage = "ig_try"
    /\ WnbindGet(NssWnbindReply(line)).return
    /\ nss' = InitgroupsAfterTry(nss, line)
    /\ UNCHANGED <<daemonVars, codecVars, pamVars>>

NextInitgroups ==
    \/ \E a \in IgArgs : InitgroupsCall(a)
    \/ InitgroupsTryReply
    \/ \E line \in OddReplies : InitgroupsTryOddReply(line)

SpecInitgroups == InitInitgroups /\ [][NextInitgroups]_vars


(***************************************************************************)
(* The server: a map lookup (webnis-server webnis.rs handle_map).  The     *)
(* configuration has one domain; a map has one key, a type, a format or    *)
(* none, and a file that holds lines by key or is missing.                 *)
(***************************************************************************)
WnOk(v) == [ok |-> TRUE, err |-> "", json |-> v]
WnErr(e) == [ok |-> FALSE, err |-> e, json |-> JNull]

\* serde_json::from_str for the values of the sample: null, a number, a
\* string without escapes; any other text is no JSON.
JsonFromStr(line) ==
    IF line = <<"n","u","l","l">> THEN WnOk(JNull)
    ELSE IF Len(line) > 0 /\ parse_u32(line) >= 0 /\ (Len(line) = 1 \/ line[1] # "0") /\ line[1] # "+"
         THEN WnOk(JNum(parse_u32(line)))
    ELSE IF /\ Len(line) >= 2 /\ line[1] = "\"" /\ line[Len(line)] = "\""
            /\ \A i \in 2..(Len(line) - 1) : line[i] \notin {"\"", "\\"}
         THEN WnOk(JStr(SubSeq(line, 2, Len(line) - 1)))
    ELSE WnErr("SerializeJson")

\* format.rs line_to_json with the error it returns
LineToJsonResult(line, format) ==
    IF format = "Json" THEN JsonFromStr(line)
    ELSE IF line_to_json(line, format).ok THEN WnOk(line_to_json(line, format).json)
    ELSE WnErr("DeserializeData")

MapConf(key, type, format, file) ==
    [key |-> key, map_type |-> type, map_format |-> format, file |-> file]
MissingFile == [missing |-> TRUE, rows |-> NoRows]
MapFile(rows) == [missing |-> FALSE, rows |-> rows]

\* db.rs gdbm_lookup
gdbm_lookup(file, key) ==
    IF file.missing THEN WnErr("MapNotFound")
    ELSE IF key \notin DOMAIN file.rows THEN WnErr("KeyNotFound")
    ELSE [ok |-> TRUE, err |-> "", line |-> file.rows[key]]

\* webnis.rs lookup_gdbm_map
lookup_gdbm_map(map, keyval) ==
    IF map.map_format = "none" THEN WnErr("UnknownFormat")
    ELSE IF ~gdbm_lookup(map.file, keyval).ok THEN WnErr(gdbm_lookup(map.file, keyval).err)
    ELSE LineToJsonResult(gdbm_lookup(map.file, keyval).line, map.map_format)

\* config.rs find_domain
find_domain(cfg, name) == name \in DOMAIN cfg.domain

\* config.rs find_allowed_map, for maps of one key without aliases
find_allowed_map(cfg, domain, mapname, keyname) ==
    /\ mapname \in cfg.domain[domain].maps
    /\ mapname \in DOMAIN cfg.map_
    /\ cfg.map_[mapname].key = keyname

MapReply(status, doc) == [status |-> status, doc |-> doc]

\* webnis.rs handle_map, for maps of the types gdbm and unsupported; query is
\* the sequence that query.iter() yields.
handle_map(cfg, domain, mapname, query) ==
    IF ~find_domain(cfg, domain) THEN MapReply(400, json_error(400))
    ELSE IF Len(query) = 0 THEN MapReply(400, json_error(400))
    ELSE IF ~find_allowed_map(cfg, domain, mapname, query[1].name)
         THEN MapReply(404, json_error(404))
    ELSE IF cfg.map_[mapname].map_type # "gdbm" THEN MapReply(500, json_error(500))
    ELSE LET res == lookup_gdbm_map(cfg.map_[mapname], query[1].val)
         IN  IF res.ok THEN MapReply(200, json_result(res.json))
             ELSE IF res.err \in {"KeyNotFound", "MapNotFound", "UnknownFormat", "SerializeJson"}
                  THEN MapReply(404, json_error(404))
             ELSE MapReply(500, json_error(500))

\* The maps of the configuration: the key t of every file has a line.
K_t == <<"t">>
MapLines(format) ==
    IF format = "Passwd" THEN PasswdLines \cup BadLines
    ELSE IF format = "Group" THEN GroupLines \cup BadLines
    ELSE {<<"n","u","l","l">>, <<"4","2">>, <<"\"","t","\"">>, <<"n","o","p","e">>, <<"{">>, <<>>}

MapConfs ==
    UNION {{MapConf("username", "gdbm", f, MapFile(Row(K_t, l))) : l \in MapLines(f)} :
              f \in {"Passwd", "Group", "Json", "none"}}
    \cup {MapConf("username", "gdbm", f, MissingFile) : f \in {"Passwd", "none"}}
    \cup {MapConf("username", t, "Passwd", MapFile(NoRows)) : t \in {"gdbm", "ldap"}}

ServerConfig(allowed, map) ==
    [domain |-> [d \in {"default"} |-> [maps |-> allowed]],
     map_ |-> [m \in {"passwd"} |-> map]]

\* The query of the request: no parameter, the key alone, or the key followed
\* by cred_uid as the daemon sends it (request.rs process).
CredUidParam == [name |-> "cred_uid", val |-> to_string(GID_RESTRICT_MIN)]
MapQueries ==
    {<<>>} \cup {<<[name |-> n, val |-> v]>> : n \in {"username", "uid"}, v \in {K_t, <<"u">>}}
    \cup {<<[name |-> "username", val |-> v], CredUidParam>> : v \in {K_t, <<"u">>}}

\* The HashMap of the query parameters: a later parameter of the same name
\* replaces an earlier one.
QueryHashMap(params) ==
    [n \in {params[i].name : i \in DOMAIN params} |->
        params[CHOOSE i \in DOMAIN params :
                  /\ params[i].name = n
                  /\ \A j \in DOMAIN params : params[j].name = n => j <= i].val]

\* HashMap::iter: the entries in an arbitrary order (the hasher is seeded at
\* random), every entry once.
HashMapIter(hm) ==
    {[i \in 1..Cardinality(DOMAIN hm) |-> [name |-> order[i], val |-> hm[order[i]]]] :
        order \in {o \in [1..Cardinality(DOMAIN hm) -> DOMAIN hm] :
                      \A i, j \in DOMAIN o : o[i] = o[j] => i = j}}

InitMap ==
    /\ DaemonAtRest
    /\ pam = NoPam
    /\ nss = NoNss
    /\ \E map \in MapConfs, allowed \in {{"passwd"}, {"group"}} :
          codec = [stage |-> "map_idle", cfg |-> ServerConfig(allowed, map),
                   domain |-> "", map |-> "", url |-> <<>>, query |-> <<>>,
                   reply |-> MapReply(0, JNull)]

\* webnis.rs handle_map: GET /<domain>/map/<map>?<params>; query is what the
\* iterator of the HashMap of the parameters yields.
HandleMapRequest(domain, mapname, params) ==
    /\ codec.stage = "map_idle"
    /\ \E query \in HashMapIter(QueryHashMap(params)) :
          codec' = [codec EXCEPT !.stage = "map_done", !.domain = domain, !.map = mapname,
                                 !.url = params, !.query = query,
                                 !.reply = handle_map(codec.cfg, domain, mapname, query)]
    /\ UNCHANGED <<daemonVars, adapterVars>>

NextMap ==
    \E domain \in {"default", "other"}, mapname \in {"passwd", "group"}, params \in MapQueries :
        HandleMapRequest(domain, mapname, params)

SpecMap == InitMap /\ [][NextMap]_vars


(***************************************************************************)
(* The server: the list of subnets of securenets (webnis-server            *)
(* iplist.rs).  An address has AddrBits bits in either family; a net is    *)
(* an address and a prefix length.                                         *)
(***************************************************************************)
AddrBits == 3
MaxNets == 2

IpFamilies == {"V4", "V6"}
IpAddrOf(fam, addr) == [fam |-> fam, addr |-> addr]
IpNetOf(fam, addr, len) == [fam |-> fam, addr |-> addr, prefix_len |-> len]
IpAddrs == {IpAddrOf(fam, addr) : fam \in IpFamilies, addr \in 0..(2^AddrBits - 1)}
IpNets == {IpNetOf(fam, addr, len) :
              fam \in IpFamilies, addr \in 0..(2^AddrBits - 1), len \in 0..AddrBits}

\* ipnet: the first and the last address of a net, and the net with the
\* host bits cleared
HostSpan(net) == 2^(AddrBits - net.prefix_len)
network(net) == (net.addr \div HostSpan(net)) * HostSpan(net)
broadcast(net) == network(net) + HostSpan(net) - 1
trunc(net) == IpNetOf(net.fam, network(net), net.prefix_len)

\* ipnet: a.contains(b) for nets of one family
net_contains(a, b) == network(a) <= network(b) /\ broadcast(b) <= broadcast(a)

\* ipnet: the derived order of IpNet: V4 before V6, then by address, then
\* by prefix length
net_lt(a, b) ==
    IF a.fam # b.fam THEN a.fam = "V4"
    ELSE IF a.addr # b.addr THEN a.addr < b.addr
    ELSE a.prefix_len < b.prefix_len

\* iplist.rs compare_v4 and compare_v6: the probe against the net of the
\* address
compare(probe, ipnet) ==
    IF probe.fam # ipnet.fam THEN (IF ipnet.fam = "V4" THEN "Greater" ELSE "Less")
    ELSE IF net_lt(ipnet, probe) THEN "Greater"
    ELSE IF net_contains(probe, ipnet) THEN "Equal"
    ELSE "Less"

\* slice::sort_unstable
RECURSIVE SortInsert(_, _)
SortInsert(sorted, net) ==
    IF Len(sorted) = 0 THEN <<net>>
    ELSE IF net_lt(net, Head(sorted)) THEN <<net>> \o sorted
    ELSE <<Head(sorted)>> \o SortInsert(Tail(sorted), net)

RECURSIVE sort_unstable(_)
sort_unstable(list) ==
    IF Len(list) = 0 THEN <<>>
    ELSE SortInsert(sort_unstable(Tail(list)), Head(list))

\* iplist.rs IpList::binary_search_by, its loop; the slots of the list are
\* counted from 0, slot i is element i + 1.
RECURSIVE SearchLoop(_, _, _, _)
SearchLoop(s, ipnet, base, size) ==
    IF size > 1
    THEN LET half == size \div 2
             mid == base + half
             cmp == compare(s[mid + 1], ipnet)
         IN  IF cmp = "Equal" THEN TRUE
             ELSE SearchLoop(s, ipnet, IF cmp = "Greater" THEN base ELSE mid, size - half)
    ELSE compare(s[base + 1], ipnet) = "Equal"

\* iplist.rs IpList::binary_search_by: is_ok() of its result
binary_search_by(s, ipnet) ==
    IF Len(s) = 0 THEN FALSE ELSE SearchLoop(s, ipnet, 0, Len(s))

\* iplist.rs IpList::contains
IpList_contains(l, ip) ==
    IF ip \in l.set THEN TRUE
    ELSE binary_search_by(l.list, IpNetOf(ip.fam, ip.addr, AddrBits))

IpList_new == [list |-> <<>>, set |-> {}]

InitIpList ==
    /\ DaemonAtRest
    /\ pam = NoPam
    /\ nss = NoNss
    /\ codec = [stage |-> "ip_adding", iplist |-> IpList_new, added |-> {},
                ip |-> IpAddrOf("V4", 0), res |-> FALSE]

\* iplist.rs IpList::add
IpListAdd(net) ==
    /\ codec.stage = "ip_adding"
    /\ Len(codec.iplist.list) + Cardinality(codec.iplist.set) < MaxNets
    /\ codec' = [codec EXCEPT
                    !.iplist = IF net.prefix_len = AddrBits
                               THEN [@ EXCEPT !.set = @ \cup {IpAddrOf(net.fam, net.addr)}]
                               ELSE [@ EXCEPT !.list = Append(@, trunc(net))],
                    !.added = @ \cup {net}]
    /\ UNCHANGED <<daemonVars, adapterVars>>

\* iplist.rs IpList::finalize
IpListFinalize ==
    /\ codec.stage = "ip_adding"
    /\ codec' = [codec EXCEPT !.stage = "ip_final",
                              !.iplist = [@ EXCEPT !.list = sort_unstable(@)]]
    /\ UNCHANGED <<daemonVars, adapterVars>>

\* iplist.rs IpList::contains is asked for an address.
IpListContains(ip) ==
    /\ codec.stage = "ip_final"
    /\ codec' = [codec EXCEPT !.stage = "ip_asked", !.ip = ip,
                              !.res = IpList_contains(codec.iplist, ip)]
    /\ UNCHANGED <<daemonVars, adapterVars>>

NextIpList ==
    \/ \E net \in IpNets : IpListAdd(net)
    \/ IpListFinalize
    \/ \E ip \in IpAddrs : IpListContains(ip)

SpecIpList == InitIpList /\ [][NextIpList]_vars


(***************************************************************************)
(* The server: the check of the Authorization header (webnis-server        *)
(* util.rs check_http_auth) and the header the daemon sends (webnis-bind   *)
(* request.rs process).                                                    *)
(***************************************************************************)
\* base64: the standard alphabet and the padding
B64 == <<"A","B","C","D","E","F","G","H","I","J","K","L","M","N","O","P","Q","R","S","T","U","V","W","X","Y","Z","a","b","c","d","e","f","g","h","i","j","k","l","m","n","o","p","q","r","s","t","u","v","w","x","y","z","0","1","2","3","4","5","6","7","8","9","+","/">>
B64Pad == "="
B64Name == <<"b","a","s","e","6","4">>
B64Val(c) == (CHOOSE i \in 1..Len(B64) : B64[i] = c) - 1
IsB64(c) == \E i \in 1..Len(B64) : B64[i] = c

\* base64::encode of the bytes of a string
RECURSIVE base64_encode(_)
base64_encode(s) ==
    IF Len(s) = 0 THEN <<>>
    ELSE LET b1 == Ord(s[1])
             b2 == IF Len(s) > 1 THEN Ord(s[2]) ELSE 0
             b3 == IF Len(s) > 2 THEN Ord(s[3]) ELSE 0
             n == b1 * 65536 + b2 * 256 + b3
             c1 == B64[(n \div 262144) + 1]
             c2 == B64[((n \div 4096) % 64) + 1]
             c3 == B64[((n \div 64) % 64) + 1]
             c4 == B64[(n % 64) + 1]
         IN  IF Len(s) = 1 THEN <<c1, c2, B64Pad, B64Pad>>
             ELSE IF Len(s) = 2 THEN <<c1, c2, c3, B64Pad>>
             ELSE <<c1, c2, c3, c4>> \o base64_encode(SubSeq(s, 4, Len(s)))

\* base64::decode for padded text: the bytes as characters, or an error.
RECURSIVE base64_decode(_)
base64_decode(s) ==
    IF Len(s) = 0 THEN [ok |-> TRUE, bytes |-> <<>>]
    ELSE IF Len(s) < 4 THEN [ok |-> FALSE, bytes |-> <<>>]
    ELSE LET last == Len(s) = 4
             pads == IF ~last THEN 0
                     ELSE IF s[3] = B64Pad /\ s[4] = B64Pad THEN 2
                     ELSE IF s[4] = B64Pad THEN 1 ELSE 0
             good == \A i \in 1..(4 - pads) : IsB64(s[i])
             v(i) == IF i <= 4 - pads THEN B64Val(s[i]) ELSE 0
             n == v(1) * 262144 + v(2) * 4096 + v(3) * 64 + v(4)
             bytes == <<Chr(n \div 65536), Chr((n \div 256) % 256), Chr(n % 256)>>
             rest == base64_decode(SubSeq(s, 5, Len(s)))
         IN  IF ~good THEN [ok |-> FALSE, bytes |-> <<>>]
             ELSE IF ~rest.ok THEN rest
             ELSE [ok |-> TRUE, bytes |-> SubSeq(bytes, 1, 3 - pads) \o rest.bytes]

\* String::from_utf8 for bytes that are ASCII or a byte no UTF-8 text
\* begins with
from_utf8_ok(bytes) == \A i \in 1..Len(bytes) : Ord(bytes[i]) < 128

\* str::split_whitespace
RECURSIVE split_whitespace(_)
split_whitespace(s) ==
    IF Len(s) = 0 THEN <<>>
    ELSE IF is_whitespace(s[1]) THEN split_whitespace(Tail(s))
    ELSE LET ends == {i \in 1..Len(s) : is_whitespace(s[i])}
             n == IF ends = {} THEN Len(s) + 1 ELSE CHOOSE i \in ends : \A j \in ends : i <= j
         IN  <<SubSeq(s, 1, n - 1)>> \o split_whitespace(SubSeq(s, n, Len(s)))

AuthDomain(schema, token, encoding) ==
    [http_authschema |-> schema, http_authtoken |-> token, http_authencoding |-> encoding]

\* A faulty variant: the second word is compared as it is.
CheckHttpAuthNoDecode(authz, domain) ==
    IF ~domain.http_authschema.some THEN "AuthOk"
    ELSE IF ~domain.http_authtoken.some THEN "BadAuth"
    ELSE IF ~authz.some THEN "NoAuth"
    ELSE LET w == split_whitespace(authz.s)
         IN  IF Len(w) < 2 \/ w[1] # domain.http_authschema.s THEN "NoAuth"
             ELSE IF domain.http_authencoding.some
                     /\ domain.http_authencoding.s # B64Name THEN "BadAuth"
             ELSE IF w[2] = domain.http_authtoken.s THEN "AuthOk"
             ELSE "BadAuth"

\* util.rs check_http_auth
check_http_auth(authz, domain) ==
    IF ~domain.http_authschema.some THEN "AuthOk"
    ELSE IF ~domain.http_authtoken.some THEN "BadAuth"
    ELSE IF ~authz.some THEN "NoAuth"
    ELSE LET w == split_whitespace(authz.s)
             dec == base64_decode(w[2])
         IN  IF Len(w) < 2 \/ w[1] # domain.http_authschema.s THEN "NoAuth"
             ELSE IF domain.http_authencoding.some
                  THEN (IF domain.http_authencoding.s = B64Name
                        THEN (IF ~dec.ok \/ ~from_utf8_ok(dec.bytes) THEN "BadAuth"
                              ELSE IF dec.bytes = domain.http_authtoken.s THEN "AuthOk"
                              ELSE "BadAuth")
                        ELSE "BadAuth")
             ELSE IF w[2] = domain.http_authtoken.s THEN "AuthOk"
             ELSE "BadAuth"

\* request.rs process: the Authorization header of the daemon for a
\* configuration of the same schema, token and encoding
ClientAuthorization(schema, token, encoding) ==
    schema \o <<" ">> \o
        (IF encoding.some /\ encoding.s = B64Name THEN base64_encode(token) ELSE token)

\* The domains of the server and the headers of a request.
AuthSchemas == {<<"B","a","s","i","c">>, <<"T","o","k","e","n">>}
AuthTokens == {<<"s","3">>, <<"u",":","p","w">>}
AuthEncodings == {None, Some(B64Name), Some(<<"h","e","x">>)}
AuthDomains ==
    {AuthDomain(schema, token, encoding) :
        schema \in {None} \cup {Some(x) : x \in AuthSchemas},
        token \in {None} \cup {Some(x) : x \in AuthTokens},
        encoding \in AuthEncodings}

AuthCredentials ==
    AuthTokens \cup {base64_encode(t) : t \in AuthTokens}
    \cup {<<"!","!","!","!">>, <<"/","w","=","=">>, <<"c","z","M">> \o <<"=">> \o <<"c","z","M","=">>}

AuthHeaders ==
    {None}
    \cup {Some(ClientAuthorization(schema, token, encoding)) :
             schema \in AuthSchemas, token \in AuthTokens, encoding \in AuthEncodings}
    \cup {Some(schema \o <<" ">> \o c) : schema \in AuthSchemas \cup {<<"b","a","s","i","c">>}, c \in AuthCredentials}
    \cup {Some(<<>>), Some(<<"B","a","s","i","c">>), Some(<<" ","B","a","s","i","c"," "," ","s","3"," ","x">>), Some(<<"B","a","s","i","c">> \o <<TAB>> \o <<"s","3">>)}

InitHttpAuth ==
    /\ DaemonAtRest
    /\ pam = NoPam
    /\ nss = NoNss
    /\ \E d \in AuthDomains :
          codec = [stage |-> "authz_idle", domain |-> d, authz |-> None, res |-> ""]

\* util.rs check_http_auth is called for a request.
CheckHttpAuth(authz) ==
    /\ codec.stage = "authz_idle"
    /\ codec' = [codec EXCEPT !.stage = "authz_done", !.authz = authz,
                              !.res = check_http_auth(authz, codec.domain)]
    /\ UNCHANGED <<daemonVars, adapterVars>>

NextHttpAuth == \E authz \in AuthHeaders : CheckHttpAuth(authz)

SpecHttpAuth == InitHttpAuth /\ [][NextHttpAuth]_vars


(***************************************************************************)
(* The server: the route matcher (webnis-server routematcher lib.rs), for  *)
(* route patterns made of literal segments and :param segments.            *)
(***************************************************************************)
\* lib.rs PercentDecoder: for every byte read the byte itself and the byte
\* decoded
RECURSIVE PercentDecoder(_)
PercentDecoder(s) ==
    IF Len(s) = 0 THEN <<>>
    ELSE IF s[1] = "%" /\ Len(s) >= 3 /\ HexVal(s[2]) >= 0 /\ HexVal(s[3]) >= 0
         THEN <<[o |-> "%", b |-> Chr(16 * HexVal(s[2]) + HexVal(s[3]))]>>
              \o PercentDecoder(SubSeq(s, 4, Len(s)))
    ELSE <<[o |-> s[1], b |-> s[1]]>> \o PercentDecoder(Tail(s))

DecodedBytes(pairs) == [i \in 1..Len(pairs) |-> pairs[i].b]

\* lib.rs percent_decode_utf8
percent_decode_utf8(s) ==
    LET pairs == PercentDecoder(s)
    IN  [some |-> from_utf8_ok(DecodedBytes(pairs)),
         s |-> DecodedBytes(pairs),
         encoded_slash |-> \E i \in 1..Len(pairs) : pairs[i].o # "/" /\ pairs[i].b = "/"]

\* lib.rs ok_utf8: the bytes start .. end - 1 of the buffer, if there is one
ok_utf8(decoding, buf, start, end) ==
    ~decoding \/ from_utf8_ok(SubSeq(buf, start + 1, end))

\* lib.rs decode_query_get_offsets, its loop: one step for a byte read
QueryStep(st, pair, decoding) ==
    LET buf == IF decoding THEN Append(st.buf, pair.b) ELSE st.buf
        wanted == st.pos > st.start /\ ok_utf8(decoding, buf, st.start, st.pos)
        equal == IF st.equal = st.start THEN st.pos ELSE st.equal
    IN  IF pair.o = "="
        THEN [st EXCEPT !.buf = buf, !.equal = st.pos, !.pos = st.pos + 1]
        ELSE IF pair.o = "&"
        THEN (IF wanted
              THEN [buf |-> buf, start |-> st.pos + 1, equal |-> st.pos + 1, pos |-> st.pos + 1,
                    offsets |-> Append(st.offsets, <<st.start, equal, st.pos>>)]
              ELSE IF decoding
                   THEN [st EXCEPT !.buf = SubSeq(buf, 1, st.start), !.equal = st.start,
                                   !.pos = st.start]
              ELSE [st EXCEPT !.start = st.pos + 1, !.equal = st.pos + 1, !.pos = st.pos + 1])
        ELSE [st EXCEPT !.buf = buf, !.pos = st.pos + 1]

RECURSIVE QueryLoop(_, _, _)
QueryLoop(st, pairs, decoding) ==
    IF Len(pairs) = 0
    THEN (IF st.pos > st.start /\ ok_utf8(decoding, st.buf, st.start, st.pos)
          THEN [st EXCEPT !.offsets =
                    Append(@, <<st.start, IF st.equal = st.start THEN st.pos ELSE st.equal, st.pos>>)]
          ELSE st)
    ELSE QueryLoop(QueryStep(st, Head(pairs), decoding), Tail(pairs), decoding)

\* lib.rs decode_query_get_offsets: the offsets and the buffer, for a query
decode_query_get_offsets(query) ==
    LET decoding == \E i \in 1..Len(query.s) : query.s[i] = "%"
        st == QueryLoop([buf |-> <<>>, start |-> 0, equal |-> 0, pos |-> 0, offsets |-> <<>>],
                        PercentDecoder(query.s), decoding)
    IN  IF ~query.some THEN [some |-> FALSE, offsets |-> <<>>, q |-> <<>>]
        ELSE [some |-> TRUE, offsets |-> st.offsets, q |-> IF decoding THEN st.buf ELSE query.s]

\* lib.rs map_query_params: the value of every key, a later one replaces an
\* earlier one
RECURSIVE QueryMap(_, _)
QueryMap(q, offsets) ==
    IF Len(offsets) = 0 THEN NoRows
    ELSE LET o == offsets[Len(offsets)]
             key == SubSeq(q, o[1] + 1, o[2])
             val == IF o[3] > o[2] + 1 THEN SubSeq(q, o[2] + 2, o[3]) ELSE <<>>
         IN  Row(key, val) @@ QueryMap(q, SubSeq(offsets, 1, Len(offsets) - 1))

map_query_params(d) == IF d.some THEN QueryMap(d.q, d.offsets) ELSE NoRows

\* lib.rs build_matcher_re: a segment :name is the group (?P<name>[^/]+),
\* every other segment is itself.
IsParamSegment(seg) == Len(seg) >= 2 /\ seg[1] = ":"
RouteSegments(pat) == split(pat, "/")

\* Regex::captures of the pattern on the path: the groups by name, or no
\* match.
RouteCaptures(pat, path) ==
    LET ps == RouteSegments(pat)
        xs == split(path, "/")
        hit == /\ Len(ps) = Len(xs)
               /\ \A i \in 1..Len(ps) :
                     IF IsParamSegment(ps[i]) THEN Len(xs[i]) > 0 ELSE xs[i] = ps[i]
        params == {i \in 1..Len(ps) : IsParamSegment(ps[i])}
    IN  [hit |-> hit,
         caps |-> IF hit THEN [n \in {Tail(ps[i]) : i \in params} |->
                                  xs[CHOOSE i \in params : Tail(ps[i]) = n]]
                  ELSE NoRows]

Route(pat, label, methods) == [pat |-> pat, label |-> label, methods |-> methods]
AnyMethod == [some |-> FALSE, list |-> {}]
Methods(list) == [some |-> TRUE, list |-> list]

HttpRequest(method, path, query, has_body, content_type) ==
    [method |-> method, path |-> path, query |-> query, has_body |-> has_body,
     content_type |-> content_type]

RouteErr(status) == [ok |-> FALSE, status |-> status, idx |-> 0]

\* lib.rs Matcher::preflight, the loop over the routes that match: the
\* first whose methods allow the request.
RECURSIVE FirstRoute(_, _, _, _, _)
FirstRoute(routes, i, path, method, status) ==
    IF i > Len(routes) THEN RouteErr(status)
    ELSE IF ~RouteCaptures(routes[i].pat, path).hit
         THEN FirstRoute(routes, i + 1, path, method, status)
    ELSE IF ~routes[i].methods.some \/ method \in routes[i].methods.list
         THEN [ok |-> TRUE, status |-> 200, idx |-> i]
    ELSE FirstRoute(routes, i + 1, path, method, 405)

\* lib.rs Matcher::preflight
preflight(matcher, r) ==
    LET path == percent_decode_utf8(r.path)
    IN  IF ~path.some THEN RouteErr(400)
        ELSE IF path.encoded_slash /\ ~matcher.encoded_slashes_ok THEN RouteErr(400)
        ELSE IF r.method = "POST" /\ ~r.has_body THEN RouteErr(411)
        ELSE IF r.method = "POST" /\ r.content_type \notin {"form", "json"} THEN RouteErr(415)
        ELSE FirstRoute(matcher.routes, 1, path.s, r.method, 404)

\* lib.rs Matcher::match_req: the Match, or the status of the error
match_req(matcher, r) ==
    LET pre == preflight(matcher, r)
        path == percent_decode_utf8(r.path).s
    IN  IF ~pre.ok
        THEN [ok |-> FALSE, status |-> pre.status, idx |-> 0, label |-> None, caps |-> NoRows,
              query_params |-> NoRows, path |-> <<>>]
        ELSE [ok |-> TRUE, status |-> 200, idx |-> pre.idx,
              label |-> matcher.routes[pre.idx].label,
              caps |-> RouteCaptures(matcher.routes[pre.idx].pat, path).caps,
              query_params |-> map_query_params(decode_query_get_offsets(r.query)),
              path |-> path]

\* lib.rs Match::route_param and Match::query_param
route_param(m, name) == IF name \in DOMAIN m.caps THEN Some(m.caps[name]) ELSE None
query_param(m, name) ==
    IF name \in DOMAIN m.query_params THEN Some(m.query_params[name]) ELSE None

\* The matchers and the requests.
P_user == <<"/","u","s","e","r","/",":","i","d">>
P_post == <<"/","p","o","s","t","/",":","n","/",":","i","d">>
Matchers ==
    {[routes |-> routes, encoded_slashes_ok |-> FALSE] :
        routes \in {<<Route(P_user, Some(<<"u","s","e","r">>), Methods({"POST", "GET"}))>>,
                    <<Route(P_user, Some(<<"u","s","e","r">>), Methods({"POST", "GET"})),
                      Route(P_post, None, AnyMethod)>>,
                    <<Route(P_user, Some(<<"g","e","t">>), Methods({"GET"})),
                      Route(P_user, Some(<<"p","u","t">>), Methods({"PUT", "POST"}))>>}}

RoutePaths ==
    {<<"/","u","s","e","r","/","m","i","k","e">>, <<"/","u","s","e","r","/","m","%","6","9","k","e">>, <<"/","u","s","e","r","/","a","%","2","F","b">>, <<"/","u","s","e","r","/","%","F","F">>, <<"/","u","s","e","r">>,
     <<"/","p","o","s","t","/","1","/","x">>, <<"/","u","s","e","r","/">>}
RouteQueries ==
    {None, Some(<<"f","o","o","=","b","a","r">>), Some(<<"f","o","o","=","b","%","6","1","r","&","n","=","1">>), Some(<<"n","=","1","&","f","o","o","=","b","a","r">>)}
HttpRequests ==
    {HttpRequest(method, path, query, has_body, content_type) :
        method \in {"GET", "POST", "PUT"}, path \in RoutePaths, query \in RouteQueries,
        has_body \in BOOLEAN, content_type \in {"none", "form", "text"}}

NoMatch == match_req([routes |-> <<>>, encoded_slashes_ok |-> FALSE],
                     HttpRequest("GET", <<>>, None, FALSE, "none"))

InitRoute ==
    /\ DaemonAtRest
    /\ pam = NoPam
    /\ nss = NoNss
    /\ \E matcher \in Matchers :
          codec = [stage |-> "route_idle", matcher |-> matcher,
                   request |-> HttpRequest("GET", <<>>, None, FALSE, "none"), m |-> NoMatch]

\* lib.rs Matcher::match_req is called for a request.
MatchReq(r) ==
    /\ codec.stage = "route_idle"
    /\ codec' = [codec EXCEPT !.stage = "route_done", !.request = r,
                              !.m = match_req(codec.matcher, r)]
    /\ UNCHANGED <<daemonVars, adapterVars>>

NextRoute == \E r \in HttpRequests : MatchReq(r)

SpecRoute == InitRoute /\ [][NextRoute]_vars


(***************************************************************************)
(* The daemon: the timeout of a session (webnis-bind main.rs).  Time is    *)
(* counted in seconds from the accept of the session; the deadline of the  *)
(* timeout is set when the reader future is made.                          *)
(***************************************************************************)
SESSION_TIMEOUT_S == 10
MaxTime == 14

SessionAccepted ==
    [stage |-> "session", now |-> 0, deadline |-> SESSION_TIMEOUT_S, last |-> 0, nreq |-> 0,
     spaced |-> TRUE, aborted |-> FALSE, eof |-> FALSE]

InitSession ==
    /\ DaemonAtRest
    /\ pam = NoPam
    /\ nss = NoNss
    /\ codec = SessionAccepted

\* The timeout is due and has not fired.
TimerDue == ~codec.aborted /\ ~codec.eof /\ codec.now >= codec.deadline

\* A second passes; the timer fires before time goes on.
SessionTick ==
    /\ codec.stage = "session"
    /\ codec.now < MaxTime
    /\ ~TimerDue
    /\ codec' = [codec EXCEPT !.now = @ + 1,
                              !.spaced = @ /\ (codec.aborted \/ codec.eof
                                               \/ codec.now + 1 - codec.last < SESSION_TIMEOUT_S)]
    /\ UNCHANGED <<daemonVars, adapterVars>>

\* main.rs main, the reader future: a line of the client is read and sent
\* on to the channel.
SessionLine ==
    /\ codec.stage = "session"
    /\ ~codec.aborted /\ ~codec.eof
    /\ ~TimerDue
    /\ codec.now > codec.last
    /\ codec' = [codec EXCEPT !.last = codec.now, !.nreq = @ + 1]
    /\ UNCHANGED <<daemonVars, adapterVars>>

\* main.rs main, the reader future: the client has closed the socket.
SessionEof ==
    /\ codec.stage = "session"
    /\ ~codec.aborted /\ ~codec.eof
    /\ ~TimerDue
    /\ codec' = [codec EXCEPT !.eof = TRUE]
    /\ UNCHANGED <<daemonVars, adapterVars>>

\* main.rs main, fut.timeout(timeout): the deadline has come, the reader
\* future is dropped and with it the sender of the channel.
SessionTimeout ==
    /\ codec.stage = "session"
    /\ TimerDue
    /\ codec' = [codec EXCEPT !.aborted = TRUE]
    /\ UNCHANGED <<daemonVars, adapterVars>>

NextSession == SessionTick \/ SessionLine \/ SessionEof \/ SessionTimeout

SpecSession == InitSession /\ [][NextSession]_vars


(***************************************************************************)
(* The server: the cache of open gdbm handles (webnis-server db.rs).       *)
(* Worker threads look a key up in the one map file; every thread keeps    *)
(* its own handle (LOCAL_MAPS), the housekeeping timer sees all of them    *)
(* through the weak references of GLOBAL_MAPS.  Time is counted in         *)
(* milliseconds; a lookup or a tick takes no time, time passes from one    *)
(* instant to the next while no thread is in the middle of either.         *)
(***************************************************************************)
NumThreads == 2
MaxLookups == 2
MaxChanges == 1
MaxTicks == 8

TICK_MS == 942
CACHE_SECS == 5

Workers == 1..NumThreads
MaxHandles == MaxLookups
Timer == 0
Free == 0 - 1

\* The instants of a run: the ticks of the timer, which sleeps TICK_MS
\* between two of them, and one more instant between two ticks.
Offsets == <<0, 600>>
Instant(k, off) == TICK_MS * k + Offsets[off]

\* Duration::as_secs: the whole seconds of a duration in milliseconds
as_secs(d) == d \div 1000

\* db.rs struct GdbmDb inside its Arc<Mutex<Option<..>>>: open is Some(db),
\* modified the mtime at open, content the state of the file the handle
\* reads, holder the thread that holds the mutex; survived counts the ticks
\* that found the handle unused for more than the cache window and left it.
GdbmDb(modified, content, now) ==
    [open |-> TRUE, modified |-> modified, content |-> content,
     lastcheck |-> now, lastused |-> now, holder |-> Free, survived |-> 0]
NoDb ==
    [open |-> FALSE, modified |-> 0, content |-> 0,
     lastcheck |-> 0, lastused |-> 0, holder |-> Free, survived |-> 0]

\* A faulty variant: the mutex is taken whoever holds it.
CanLockAlways(holder) == TRUE

\* Mutex::lock: the caller goes on when no thread holds the mutex
CanLock(holder) == holder = Free

\* A faulty variant: the mtime is compared at every lookup.
GdbmCheckAlways(db, now, file) ==
    IF file.exists /\ file.mtime # db.modified
    THEN [valid |-> FALSE, db |-> db, rechecked |-> TRUE]
    ELSE [valid |-> TRUE, db |-> [db EXCEPT !.lastcheck = now], rechecked |-> file.exists]

\* db.rs gdbm_check: when the last check is more than CACHE_SECS whole
\* seconds ago and the file has metadata, the handle is valid only if the
\* mtime is the one recorded at open; a valid handle gets lastcheck = now.
gdbm_check(db, now, file) ==
    IF as_secs(now - db.lastcheck) > CACHE_SECS
    THEN IF file.exists /\ file.mtime # db.modified
         THEN [valid |-> FALSE, db |-> db, rechecked |-> TRUE]
         ELSE [valid |-> TRUE, db |-> [db EXCEPT !.lastcheck = now], rechecked |-> file.exists]
    ELSE [valid |-> TRUE, db |-> db, rechecked |-> FALSE]

\* What a lookup did: kind is "cached" (answered from the handle of the
\* thread), "fresh" (from a file just opened) or "notfound"; served is the
\* state of the file that answered, age how long before the lookup the
\* handle was last checked, behind how long before the lookup the file left
\* the state that the handle reads (Free when it has not).
NoLookup == [kind |-> "none", served |-> 0, age |-> 0, rechecked |-> FALSE, behind |-> Free,
             reaped |-> FALSE]

TheMapFile == [exists |-> TRUE, mtime |-> 0, changed_at |-> Free]

InitDb ==
    /\ DaemonAtRest
    /\ pam = NoPam
    /\ nss = NoNss
    /\ codec = [stage |-> "db", k |-> 0, off |-> 1, ticked |-> TRUE, changes |-> 0,
                file |-> TheMapFile,
                h |-> [i \in 1..MaxHandles |-> NoDb], nh |-> 0,
                m |-> [t \in Workers |-> 0],
                global |-> <<>>, glock |-> Free,
                wpc |-> [t \in Workers |-> "idle"], wnow |-> [t \in Workers |-> 0],
                wnew |-> [t \in Workers |-> 0], looks |-> 0,
                res |-> [t \in Workers |-> NoLookup],
                tpc |-> "idle", idx |-> 1, tnow |-> 0, tref |-> 0, verdict |-> "none"]

DbNow == Instant(codec.k, codec.off)
Quiescent ==
    /\ codec.stage = "db"
    /\ \A t \in Workers : codec.wpc[t] = "idle"
    /\ codec.tpc = "idle"

\* The Arc of handle i has a strong reference: the map of a thread, a
\* thread about to register it, or the timer after upgrade().
Strong(c, i) ==
    \/ \E t \in Workers : c.m[t] = i \/ (c.wpc[t] = "push" /\ c.wnew[t] = i)
    \/ c.tref = i

\* Dropping the last strong reference drops the GdbmDb and closes the file.
DropArc(c, i) == IF Strong(c, i) THEN c ELSE [c EXCEPT !.h[i].open = FALSE]

\* Vec::remove
RemoveAt(q, i) == SubSeq(q, 1, i - 1) \o SubSeq(q, i + 1, Len(q))

\* Time passes to the next instant; a tick that is due is run first.
DbPass ==
    /\ Quiescent /\ codec.ticked
    /\ codec.k < MaxTicks
    /\ codec' = IF codec.off < Len(Offsets)
                THEN [codec EXCEPT !.off = codec.off + 1]
                ELSE [codec EXCEPT !.k = codec.k + 1, !.off = 1, !.ticked = FALSE]
    /\ UNCHANGED <<daemonVars, adapterVars>>

\* The map file is replaced by a new one, with a new mtime.
FileReplaced ==
    /\ Quiescent /\ codec.changes < MaxChanges /\ codec.file.exists
    /\ codec' = [codec EXCEPT !.changes = codec.changes + 1,
                              !.file = [exists |-> TRUE, mtime |-> codec.file.mtime + 1,
                                        changed_at |-> DbNow]]
    /\ UNCHANGED <<daemonVars, adapterVars>>

\* The map file is removed.
FileRemoved ==
    /\ Quiescent /\ codec.changes < MaxChanges /\ codec.file.exists
    /\ codec' = [codec EXCEPT !.changes = codec.changes + 1,
                              !.file = [exists |-> FALSE, mtime |-> codec.file.mtime + 1,
                                        changed_at |-> DbNow]]
    /\ UNCHANGED <<daemonVars, adapterVars>>

\* db.rs gdbm_lookup on thread t, up to the look into the map of the thread.
GdbmLookupBegin(t) ==
    /\ codec.stage = "db" /\ codec.wpc[t] = "idle" /\ codec.looks < MaxLookups
    /\ codec' = [codec EXCEPT !.looks = codec.looks + 1,
                              !.wnow[t] = DbNow,
                              !.res[t] = NoLookup,
                              !.wpc[t] = IF codec.m[t] # 0 THEN "lock" ELSE "open"]
    /\ UNCHANGED <<daemonVars, adapterVars>>

\* How long before now the file left the state that the handle reads.
Behind(db, file, now) == IF db.content = file.mtime THEN Free ELSE now - file.changed_at

\* db.rs gdbm_lookup: the thread has a handle; it takes the mutex, and if
\* the handle is there and valid, marks it used and goes on to fetch with
\* the mutex held.  Otherwise the guard is dropped and the handle is not
\* used.
GdbmLookupCached(t) ==
    LET i == codec.m[t]
        db == codec.h[i]
        c == gdbm_check(db, codec.wnow[t], codec.file)
    IN  /\ codec.stage = "db" /\ codec.wpc[t] = "lock"
        /\ CanLock(db.holder)
        /\ codec' =
              IF db.open /\ c.valid
              THEN [codec EXCEPT !.h[i] = [c.db EXCEPT !.lastused = codec.wnow[t], !.holder = t,
                                                       !.survived = 0],
                                 !.res[t] = [NoLookup EXCEPT !.age = codec.wnow[t] - db.lastcheck,
                                                             !.rechecked = c.rechecked,
                                                             !.behind = Behind(db, codec.file, codec.wnow[t])],
                                 !.wpc[t] = "fetch"]
              ELSE [codec EXCEPT !.res[t] = [NoLookup EXCEPT !.age = codec.wnow[t] - db.lastcheck,
                                                             !.rechecked = db.open /\ c.rechecked,
                                                             !.reaped = ~db.open],
                                 !.wpc[t] = "drop"]
        /\ UNCHANGED <<daemonVars, adapterVars>>

\* db.rs gdbm_lookup: db.handle.fetch(key) on the handle of the thread, then
\* the guard goes out of scope.
GdbmLookupFetch(t) ==
    LET i == codec.m[t]
    IN  /\ codec.stage = "db" /\ codec.wpc[t] = "fetch"
        /\ codec' = [codec EXCEPT !.h[i].holder = IF codec.h[i].holder = t THEN Free
                                                    ELSE codec.h[i].holder,
                                  !.res[t].kind = "cached",
                                  !.res[t].served = codec.h[i].content,
                                  !.wpc[t] = "idle"]
        /\ UNCHANGED <<daemonVars, adapterVars>>

\* db.rs gdbm_lookup: `invalid. drop handle.`  m.remove(path) drops the Arc
\* of the thread.
GdbmLookupDrop(t) ==
    LET i == codec.m[t]
    IN  /\ codec.stage = "db" /\ codec.wpc[t] = "drop"
        /\ codec' = DropArc([codec EXCEPT !.m[t] = 0, !.wpc[t] = "open"], i)
        /\ UNCHANGED <<daemonVars, adapterVars>>

\* db.rs gdbm_lookup: `try to open, then lookup`: without the file the
\* lookup ends with MapNotFound, else the key is fetched from the new
\* handle.
GdbmLookupOpen(t) ==
    LET i == codec.nh + 1
    IN  /\ codec.stage = "db" /\ codec.wpc[t] = "open"
        /\ codec' =
              IF ~codec.file.exists
              THEN [codec EXCEPT !.res[t].kind = "notfound", !.wpc[t] = "idle"]
              ELSE [codec EXCEPT !.nh = i,
                                 !.h[i] = GdbmDb(codec.file.mtime, codec.file.mtime, codec.wnow[t]),
                                 !.res[t].kind = "fresh",
                                 !.res[t].served = codec.file.mtime,
                                 !.wnew[t] = i,
                                 !.wpc[t] = "push"]
        /\ UNCHANGED <<daemonVars, adapterVars>>

\* db.rs gdbm_lookup: `and save handle`: under the mutex of GLOBAL_MAPS a
\* weak reference is pushed, then the Arc is put into the map of the thread.
GdbmLookupSave(t) ==
    /\ codec.stage = "db" /\ codec.wpc[t] = "push"
    /\ CanLock(codec.glock)
    /\ codec' = [codec EXCEPT !.global = Append(codec.global, codec.wnew[t]),
                              !.m[t] = codec.wnew[t],
                              !.wnew[t] = 0,
                              !.wpc[t] = "idle"]
    /\ UNCHANGED <<daemonVars, adapterVars>>

\* db.rs Timer::interval, its start: now is read and GLOBAL_MAPS is locked.
IntervalBegin ==
    /\ codec.stage = "db" /\ codec.tpc = "idle" /\ ~codec.ticked
    /\ CanLock(codec.glock)
    /\ codec' = [codec EXCEPT !.glock = Timer, !.tnow = DbNow, !.idx = 1, !.tpc = "scan"]
    /\ UNCHANGED <<daemonVars, adapterVars>>

\* db.rs Timer::interval, the head of the loop: at the end of the list the
\* mutex is released; an entry whose Arc is gone is removed; otherwise the
\* weak reference is upgraded.
IntervalUpgrade ==
    /\ codec.stage = "db" /\ codec.tpc = "scan"
    /\ codec' =
          IF codec.idx > Len(codec.global)
          THEN [codec EXCEPT !.glock = Free, !.tpc = "idle", !.ticked = TRUE]
          ELSE IF ~Strong(codec, codec.global[codec.idx])
               THEN [codec EXCEPT !.global = RemoveAt(codec.global, codec.idx)]
               ELSE [codec EXCEPT !.tref = codec.global[codec.idx], !.tpc = "entry"]
    /\ UNCHANGED <<daemonVars, adapterVars>>

\* The handle has been unused for more than the cache window.
Idle(db, now) == now - db.lastused > CACHE_SECS * 1000

\* db.rs Timer::interval, one entry: the mutex of the entry is taken and the
\* entry is looked at: it is "gone" without GdbmDb, "old" when unused for
\* more than CACHE_SECS whole seconds, else it is to "keep".
IntervalEntry ==
    LET i == codec.tref
        db == codec.h[i]
    IN  /\ codec.stage = "db" /\ codec.tpc = "entry"
        /\ CanLock(db.holder)
        /\ codec' = [codec EXCEPT !.h[i].holder = Timer,
                                  !.verdict = IF ~db.open THEN "gone"
                                              ELSE IF as_secs(codec.tnow - db.lastused) > CACHE_SECS
                                                   THEN "old"
                                              ELSE "keep",
                                  !.tpc = "act"]
        /\ UNCHANGED <<daemonVars, adapterVars>>

\* db.rs Timer::interval, one entry: an entry that is gone is removed from
\* the list, an old one is closed (opt_db.take()) and removed, any other is
\* stepped over; the guard and the upgraded Arc go out of scope.
IntervalAct ==
    LET i == codec.tref
        db == codec.h[i]
        released == [codec EXCEPT !.h[i].holder = IF db.holder = Timer THEN Free ELSE db.holder,
                                  !.tref = 0, !.tpc = "scan", !.verdict = "none"]
    IN  /\ codec.stage = "db" /\ codec.tpc = "act"
        /\ codec' =
              DropArc(
                IF codec.verdict = "gone"
                THEN [released EXCEPT !.global = RemoveAt(codec.global, codec.idx)]
                ELSE IF codec.verdict = "old"
                THEN [released EXCEPT !.h[i].open = FALSE,
                                      !.global = RemoveAt(codec.global, codec.idx)]
                ELSE [released EXCEPT !.h[i].survived =
                                          IF Idle(db, codec.tnow) THEN db.survived + 1 ELSE 0,
                                      !.idx = codec.idx + 1],
                i)
        /\ UNCHANGED <<daemonVars, adapterVars>>

NextDb ==
    \/ DbPass
    \/ FileReplaced
    \/ FileRemoved
    \/ \E t \in Workers : GdbmLookupBegin(t)
    \/ \E t \in Workers : GdbmLookupCached(t)
    \/ \E t \in Workers : GdbmLookupFetch(t)
    \/ \E t \in Workers : GdbmLookupDrop(t)
    \/ \E t \in Workers : GdbmLookupOpen(t)
    \/ \E t \in Workers : GdbmLookupSave(t)
    \/ IntervalBegin
    \/ IntervalUpgrade
    \/ IntervalEntry
    \/ IntervalAct

SpecDb == InitDb /\ [][NextDb]_vars


(***************************************************************************)
(* The claims.                                                             *)
(***************************************************************************)
InFlight(s) == pc[s] \in {"inflight", "retry", "respond"}

Handled(s) == s \in Observed /\ Alone /\ pc[s] \in {"retry", "respond"} /\ hist[s].attempts > 0

\* C2: a client request, map lookup or auth alike, causes at most MAX_TRIES
\* HTTPS attempts, and when the last of them fails too the response line is
\* the error line of that attempt.
C2_AtMostMaxTries ==
    \A s \in Observed :
        /\ hist[s].attempts <= MAX_TRIES
        /\ Handled(s) /\ pc[s] = "respond" /\ ~AttemptResult(hist[s].reply).ok
              => resp[s] = AttemptResult(hist[s].reply).e

\* The attempt of session s got a reply of HTTP status st, completely.
Got(s, st) ==
    /\ Handled(s)
    /\ hist[s].reply.kind = "response" /\ hist[s].reply.status = st
    /\ hist[s].reply.is_json => hist[s].reply.body_ok

\* The pool is as the latest attempt of session s found it.
PoolAsFound(s) == http_client = [client |-> TRUE, seqno |-> req[s].seqno]

\* C3 as stated: an attempt whose outcome is HTTP 401, 403 or 404 is final,
\* the request answers with that code, and the pool stays as it was.
C3_FinalWithStatus ==
    \A s \in Observed : \A st \in {401, 403, 404} :
        Got(s, st) => pc[s] = "respond" /\ resp[s].code = st /\ PoolAsFound(s)

\* C3, amended: a reply of HTTP status 401, 403 or 404 is final and leaves
\* the pool as it was; the request answers with the status when the reply
\* is not application/json, and with the code of the error object in its
\* body when it is.
C3_FinalWithReplyCode ==
    \A s \in Observed : \A st \in {401, 403, 404} :
        Got(s, st) =>
            /\ pc[s] = "respond"
            /\ PoolAsFound(s)
            /\ ~hist[s].reply.is_json => resp[s] = Response_error(st, "HTTP error")
            /\ hist[s].reply.is_json /\ IsError(hist[s].reply.body)
                  => resp[s].code = Field(Field(hist[s].reply.body, <<"error">>, 1), ErrorFields, 1).n

\* C3, its case: the server's answer to a wrong password, HTTP 403 with
\* the code 401 in its body, has ended the request with a 401 line.
C3_Witness ==
    \E s \in Observed :
        /\ Got(s, 403) /\ hist[s].reply.is_json
        /\ pc[s] = "respond" /\ resp[s].code = 401

\* The request of session s has made MAX_TRIES unsuccessful attempts.
Exhausted(s) == s \in Observed /\ InFlight(s) /\ hist[s].failed >= MAX_TRIES

\* The request of session s has contacted every server of the pool at
\* least floor(MAX_TRIES / N) times.
Covered(s) == \A i \in Servers : hist[s].contacted[i] >= MAX_TRIES \div config.nservers

\* C4 as stated: a request that has made MAX_TRIES unsuccessful attempts
\* has contacted every server of the pool at least floor(MAX_TRIES / N)
\* times, whatever the other sessions do to the shared pool.
C4_CoverageAlways == \A s \in Observed : Exhausted(s) => Covered(s)

\* C4, amended: a request that has made MAX_TRIES unsuccessful attempts
\* has contacted every server of the pool at least floor(MAX_TRIES / N)
\* times, provided no other session has changed the shared pool while the
\* request was in flight.
C4_CoverageUndisturbed ==
    \A s \in Observed : Exhausted(s) /\ ~hist[s].disturbed => Covered(s)

\* C4, its case: next to another session at work, a request has failed
\* MAX_TRIES times on a pool of several servers without the pool being
\* changed under it.
C4_Witness ==
    \E s \in Observed :
        /\ Exhausted(s) /\ ~hist[s].disturbed /\ config.nservers > 1
        /\ \E t \in Sessions \ {s} : nread[t] > 0

\* A reply that a healthy server gives: a JSON result.
Healthy(o) == AttemptResult(o).ok /\ IsSuccess(o.body)

\* The request of a lone session s began with a client handle present and
\* its first attempt failed with a connect, TLS or stream error.
FailoverCase(s) ==
    s \in Observed /\ Alone /\ InFlight(s) /\ hist[s].cl0 /\ hist[s].first = 550

\* C5: failover on a connection error, for a session that runs alone and
\* has not reached eof: the failure drops the client handle and leaves
\* seqno, the retry recreates the handle and targets the next server of the
\* pool, and when that server is healthy the caller gets its one response,
\* a 200 line and no 550, with seqno 1 higher than before the request.
C5_Failover ==
    \A s \in Sessions : FailoverCase(s) =>
        /\ pc[s] = "retry" /\ hist[s].attempts = 1
              => http_client = [client |-> FALSE, seqno |-> hist[s].seq0]
        /\ pc[s] = "inflight" /\ hist[s].attempts = 2
              => /\ http_client = [client |-> TRUE, seqno |-> hist[s].seq0 + 1]
                 /\ req[s].seqno = hist[s].seq0 + 1
                 /\ ServerOf(config, req[s].seqno)
                       = (ServerOf(config, hist[s].seq0) + 1) % config.nservers
                 /\ hist[s].contacted[ServerOf(config, req[s].seqno)] >= 1
        /\ pc[s] = "respond" /\ hist[s].attempts = 2 /\ Healthy(hist[s].reply)
              => /\ resp[s].code = 200
                 /\ http_client.seqno = hist[s].seq0 + 1
                 /\ Len(out[s]) = req[s].k - 1
        /\ pc[s] = "respond" /\ hist[s].attempts = 1 => eof[s]

\* C5, its case: the retry on the next server was answered and the 200
\* line is about to be written.
C5_Witness ==
    \E s \in Sessions :
        /\ FailoverCase(s) /\ ~eof[s]
        /\ pc[s] = "respond" /\ hist[s].attempts = 2 /\ Healthy(hist[s].reply)
        /\ resp[s].code = 200

\* The replies that fail an attempt with an error that is not final by
\* itself.
Failures ==
    {o \in EnvReplies(env) :
        ~AttemptResult(o).ok /\ AttemptResult(o).e.code \notin {401, 403, 404}}

\* C6: once the eof flag of a session is set, a failed attempt of its
\* request is never followed by a retry; a session whose eof flag is clear
\* and that has tries left still retries, whatever the flags of the others.
C6_EofStopsRetries ==
    /\ [][\A s \in Sessions : eof[s] /\ pc[s] = "inflight" => pc'[s] # "retry"]_vars
    /\ [](\A s \in Sessions :
            pc[s] = "inflight" /\ ~eof[s] /\ req[s].try_no < MAX_TRIES
               => \A o \in Failures : ENABLED AttemptRetry(s, o))

\* C6, its case: with tries left, a failure that is not final by itself
\* has ended the request of a session at eof.
C6_Witness ==
    \E s \in Observed :
        /\ eof[s] /\ pc[s] = "respond" /\ req[s].try_no < MAX_TRIES - 1
        /\ hist[s].failed > 0 /\ resp[s].code = 500

\* The request that session s is processing, as parsed.
Parsed(s) == parse(Lines[req[s].line])

\* The request of session s was answered 403 without an attempt and the
\* pool is as it was.
Refused(s) ==
    /\ pc[s] = "respond" /\ resp[s] = Response_error(403, "Forbidden")
    /\ hist[s].attempts = 0
    /\ http_client = [client |-> hist[s].cl0, seqno |-> hist[s].seq0]

\* The request of session s went to a server.
Forwarded(s) == hist[s].attempts >= 1

\* C7: with restrict_getpwuid set, a getpwuid request of a session whose
\* peer uid is above 0 and is not the requested uid is answered 403
\* Forbidden without an HTTPS attempt and without a change of the pool;
\* every other getpwuid request goes to a server.
C7_RestrictGetpwuid ==
    \A s \in Observed :
        Alone /\ InFlight(s) /\ Parsed(s).ok /\ Parsed(s).cmd = "GetPwUid" =>
            IF config.restrict_getpwuid /\ ctx[s].uid > 0 /\ Parsed(s).arg0 # ctx[s].uid
            THEN Refused(s) ELSE Forwarded(s)

\* C7, its case: a session that is not root has asked for another uid and
\* was refused.
C7_Witness ==
    \E s \in Observed :
        /\ Alone /\ InFlight(s) /\ Parsed(s).ok /\ Parsed(s).cmd = "GetPwUid"
        /\ config.restrict_getpwuid /\ ctx[s].uid > 0 /\ Parsed(s).arg0 # ctx[s].uid
        /\ Refused(s)

\* C8: with restrict_getgrgid set, a getgrgid request of a session with
\* peer uid above 0 is answered 403 without an HTTPS attempt exactly when
\* the requested gid is at least 1000 and is not the session's own gid;
\* the others go to a server.
C8_RestrictGetgrgid ==
    \A s \in Observed :
        /\ Alone /\ InFlight(s) /\ Parsed(s).ok /\ Parsed(s).cmd = "GetGrGid"
        /\ config.restrict_getgrgid /\ ctx[s].uid > 0
        => IF Parsed(s).arg0 >= GID_RESTRICT_MIN /\ Parsed(s).arg0 # ctx[s].gid
           THEN Refused(s) ELSE Forwarded(s)

\* C8, its case: a session that is not root has asked for the gid 1000,
\* which is not its own, and was refused.
C8_Witness ==
    \E s \in Observed :
        /\ Alone /\ InFlight(s) /\ Parsed(s).ok /\ Parsed(s).cmd = "GetGrGid"
        /\ config.restrict_getgrgid /\ ctx[s].uid > 0
        /\ Parsed(s).arg0 = GID_RESTRICT_MIN /\ Parsed(s).arg0 # ctx[s].gid
        /\ Refused(s)

\* The lines that are the servers command: the verb alone, in any case.
ServersLines == {l \in 1..Len(Lines) : tolower(Lines[l]) = V_servers}

\* C9: a servers line is parsed to a variant of its own and answered with
\* the 200 line that carries the pool's state, without an HTTPS attempt
\* and without a change of the pool.
C9_ServersAnswered ==
    \A s \in Observed :
        Alone /\ pc[s] \notin {"idle", "closed"} /\ req[s].line \in ServersLines =>
            /\ Parsed(s).cmd = "Servers"
            /\ pc[s] = "respond" /\ resp[s] = ServersReply(config, http_client)
            /\ hist[s].attempts = 0
            /\ http_client = [client |-> hist[s].cl0, seqno |-> hist[s].seq0]

\* C10: the response line that the daemon makes of the server's JSON entry
\* for a well-formed passwd or group record is "200 " and the record line.
C10_RoundTrip ==
    codec.stage = "done" /\ codec.res.ok => codec.resp = Response_line(codec.line)


(***************************************************************************)
(* Authentication: the PAM adapter, the daemon and the map server.         *)
(***************************************************************************)
\* The server has answered the POST of the daemon.
Answered == pam.stage = "http"

\* C11: for every password the user types, the byte string the server's
\* verifier hashes (after the adapter's percent-encoding, the daemon's body
\* construction, the server's form decoding and percent-decoding) is the
\* password that was typed.
C11_PasswordRoundTrip ==
    (Answered /\ pam.http.hashed.some) => pam.http.hashed.s = pam.items.authtok.s

\* What the POST submitted, as the server reads the form body.
Submitted == from_post_body(pam.body)

\* The POST reaches map-based authentication of a configured domain.
MapAuthCase ==
    /\ Answered /\ Submitted.ok
    /\ pam.srv.has_domain /\ pam.srv.has_auth /\ pam.srv.map_type = "gdbm"

UserKnown == pam.srv.has_map /\ Submitted.username \in DOMAIN pam.srv.db

\* The stored hash is 13 characters long and does not start with "$".
DesLength(h) == h.len = 13 /\ ~h.dollar

\* The submitted password verifies against the user's stored hash.
Verifies ==
    /\ UserKnown
    /\ pam.srv.db[Submitted.username].has_passwd
    /\ LET h == pam.srv.db[Submitted.username].passwd
       IN  h.valid /\ ~DesLength(h) /\ h.of = percent_decode(Submitted.password)

\* The code of the answer: 200, or the code of the error in its body.
AnswerCode ==
    IF pam.http.status = 200 THEN 200 ELSE pam.http.doc.o.error.o.code.n

\* C12 as stated: map-based auth answers 200 when the submitted password
\* verifies, 401 when the user exists and the password does not verify, and
\* 404 when the user is absent from the auth map or the map is missing.
C12_AbsentUserNotFound ==
    MapAuthCase =>
        /\ Verifies => AnswerCode = 200
        /\ (UserKnown /\ ~Verifies) => AnswerCode = 401
        /\ ~UserKnown => AnswerCode = 404

\* C12 amended: map-based auth answers 200 when the submitted password
\* verifies, the error 401 (under HTTP status 403) when it does not verify
\* or the user is absent from the auth map, and 404 when the map is missing.
C12_AbsentUserRejected ==
    MapAuthCase =>
        /\ Verifies => pam.http.status = 200
        /\ (pam.srv.has_map /\ ~Verifies) => (pam.http.status = 403 /\ AnswerCode = 401)
        /\ ~pam.srv.has_map => (pam.http.status = 404 /\ AnswerCode = 404)

C12_Witness ==
    /\ MapAuthCase /\ pam.srv.has_map /\ ~UserKnown
    /\ pam.http.status = 403 /\ AnswerCode = 401

\* The account of the user is not in the auth map.
AccountAbsent == pam.items.user.s \notin DOMAIN pam.srv.db

\* The account exists and the password typed is not the account's.
PasswordWrong ==
    /\ pam.items.user.s \in DOMAIN pam.srv.db
    /\ pam.srv.db[pam.items.user.s].has_passwd
    /\ pam.srv.db[pam.items.user.s].passwd.valid
    /\ pam.srv.db[pam.items.user.s].passwd.of # pam.items.authtok.s

\* An authentication that went through adapter, daemon and server with
\* nothing failing on the way.
WentThrough ==
    /\ pam.stage = "done" /\ pam.trips > 0 /\ pam.faults = 0
    /\ pam.srv.has_domain /\ pam.srv.has_auth /\ pam.srv.has_map /\ pam.srv.map_type = "gdbm"

\* C13: whether the account is absent or the password is wrong, the adapter
\* returns the same result, AUTH_ERR, after the same number of round-trips
\* to the daemon: one, without a retry.
C13_AbsentLikeWrong ==
    (WentThrough /\ (AccountAbsent \/ PasswordWrong)) =>
        (pam.result = "AUTH_ERR" /\ pam.trips = 1 /\ pam.slept = 0)

\* C14: verification never succeeds against a stored hash of 13 characters
\* that does not start with "$", whatever password is submitted.
C14_DesNeverVerifies ==
    (MapAuthCase /\ UserKnown /\ pam.srv.db[Submitted.username].has_passwd
        /\ DesLength(pam.srv.db[Submitted.username].passwd))
    => (pam.http.status # 200 /\ ~pam.http.hashed.some)

C14_Witness ==
    /\ MapAuthCase /\ UserKnown
    /\ pam.srv.db[Submitted.username].passwd = DesOf(percent_decode(Submitted.password))
    /\ pam.http.status = 403

\* What a try ran into, by the classes of the reply mapping.
Accepted(t) == ~t.io /\ t.code >= 200 /\ t.code <= 299
Rejected(t) == ~t.io /\ t.code \in {401, 403, 404}
OtherOutcome(t) == ~Accepted(t) /\ ~Rejected(t)

\* C16: a 2xx reply is success; 401, 403 and 404 are AUTH_ERR without a
\* retry; every other outcome (another code, a garbage reply, a failure to
\* connect, write or read) leads to a sleep of 2500 ms and exactly one
\* retry, and to AUTHINFO_UNAVAIL if the retry fails too.
C16_RetryOnceOnOtherOutcome ==
    (pam.stage = "done" /\ Len(pam.tried) > 0) =>
        LET first == pam.tried[1]
            last == pam.tried[Len(pam.tried)]
        IN  /\ Accepted(first) => (pam.result = "SUCCESS" /\ Len(pam.tried) = 1 /\ pam.slept = 0)
            /\ Rejected(first) => (pam.result = "AUTH_ERR" /\ Len(pam.tried) = 1 /\ pam.slept = 0)
            /\ OtherOutcome(first) =>
                  /\ Len(pam.tried) = 2 /\ pam.slept = 2500
                  /\ Accepted(last) => pam.result = "SUCCESS"
                  /\ Rejected(last) => pam.result = "AUTH_ERR"
                  /\ OtherOutcome(last) => pam.result = "AUTHINFO_UNAVAIL"

\* The arguments of a request line: what stands between its single spaces.
WireArgs == Tail(split(LinesDecode(pam.wire), " "))

\* C17: no request is sent when the user name, the service or the remote
\* host contains whitespace, so every line written is one auth line with
\* three or four space-separated arguments and one newline, at its end.
C17_OneAuthLine ==
    pam.wire # <<>> =>
        /\ ~contains_whitespace(pam.items.user.s)
        /\ ~contains_whitespace(pam.items.service.s)
        /\ ~contains_whitespace(pam.items.rhost.s)
        /\ IndexOf(pam.wire, NL) = Len(pam.wire)
        /\ Head(split(LinesDecode(pam.wire), " ")) = V_auth
        /\ Len(WireArgs) = (IF pam.items.rhost.some THEN 4 ELSE 3)
        /\ \A i \in 1..Len(WireArgs) : ~contains_whitespace(WireArgs[i])
        /\ parse(LinesDecode(pam.wire)).ok /\ parse(LinesDecode(pam.wire)).cmd = "Auth"

C17_Witness ==
    /\ pam.stage = "sent" /\ pam.items.rhost.some /\ Len(WireArgs) = 4
    /\ \E i \in 1..Len(pam.items.authtok.s) : pam.items.authtok.s[i] = " "

\* A call of an entry point of the NSS adapter has returned.
Finished == nss.stage = "idle" /\ nss.calls >= 1

\* The strings and numbers the caller reads from its struct passwd, put
\* together as a passwd line.
PasswdLine(pw) ==
    join(<<CStr(pw.buffer.bytes, pw.pwd.pw_name), CStr(pw.buffer.bytes, pw.pwd.pw_passwd),
           to_string(pw.pwd.pw_uid), to_string(pw.pwd.pw_gid),
           CStr(pw.buffer.bytes, pw.pwd.pw_gecos), CStr(pw.buffer.bytes, pw.pwd.pw_dir),
           CStr(pw.buffer.bytes, pw.pwd.pw_shell)>>, ":")

\* The members the caller reads through gr_mem.
GroupMembers(gr) ==
    IF gr.grp.gr_mem > 0 /\ gr.grp.gr_mem = gr.buffer.apos
    THEN CStrArray(gr.buffer.bytes, gr.buffer.array) ELSE <<>>

\* What the caller reads from its struct group, as a group line.
GroupLine(gr) ==
    join(<<CStr(gr.buffer.bytes, gr.grp.gr_name), CStr(gr.buffer.bytes, gr.grp.gr_passwd),
           to_string(gr.grp.gr_gid), join(GroupMembers(gr), ",")>>, ":")

\* The previous call on the thread was a getpwnam_r that succeeded, this
\* one is a getpwuid_r for the uid it returned and has done its lookup.
AfterGetpwnam ==
    /\ Finished /\ nss.call.fn = "getpwuid_r" /\ nss.phase # "new"
    /\ nss.prev.fn = "getpwnam_r" /\ nss.prev.status = "Success"
    /\ nss.prev.pw_uid = nss.call.uid

\* A lookup by the name of the previous call, into a fresh record with the
\* buffer of this call, succeeds: the daemon has the name, the entry
\* decodes.
ByNameSucceeds ==
    /\ nss.prev.name \in DOMAIN nss.db.getpwnam
    /\ Passwd_new(CallerPasswd, nss.call.buflen).ok
    /\ decode_passwd(Passwd_new(CallerPasswd, nss.call.buflen).pw,
                     nss.db.getpwnam[nss.prev.name]).res = "Ok"

\* C15: on one thread, a getpwuid_r(u) that follows a getpwnam_r(name) which
\* succeeded with uid u succeeds whenever a lookup by that name succeeds,
\* also when the lookup by uid fails: the record is reset and the lookup is
\* done again by the remembered name.  A uid that is not the remembered one
\* gets no fallback, the call returns what the lookup by uid gave.
C15_FallbackByName ==
    /\ AfterGetpwnam =>
          /\ nss.direct = "Ok" => (nss.status = "Success" /\ ~nss.fellback)
          /\ nss.direct # "Ok" =>
                /\ nss.fellback
                /\ nss.status = nss_result(nss.byname, "0").status
                /\ (~nss.faulty /\ ByNameSucceeds) =>
                      /\ nss.status = "Success"
                      /\ PasswdLine(nss.pw) = nss.db.getpwnam[nss.prev.name]
    /\ (Finished /\ nss.call.fn = "getpwuid_r" /\ nss.phase # "new"
            /\ ~(nss.last_uid.some /\ nss.last_uid.uid = nss.call.uid)) =>
          /\ ~nss.fellback
          /\ nss.res = nss.direct

\* The lookup by uid failed half way through a longer entry, the lookup by
\* name filled the record.
C15_Witness ==
    /\ AfterGetpwnam /\ ~nss.faulty
    /\ nss.direct = "InsufficientBuffer" /\ nss.fellback
    /\ ByNameSucceeds /\ nss.status = "Success"

\* C18: against a daemon whose every attempt fails with a transient
\* connection error the lookup gives up once the budget MAX_TIMEOUT_MS is
\* used: no attempt begins later than MAX_TIMEOUT_MS after the lookup
\* began, and the lookup that gives up returns the transient error
\* TryAgainLater.
C18_GivesUpAfterBudget ==
    /\ (nss.stage = "try" /\ nss.transient) => nss.elapsed <= MAX_TIMEOUT_MS
    /\ (Finished /\ nss.transient /\ nss.call.fn # "getpwuid_r") =>
          (nss.res = "TryAgainLater" /\ nss.status = "TryAgain")

\* The map of the daemon a call looks into, and the key it looks for.
ServedMap ==
    IF nss.call.fn = "getpwnam_r" THEN nss.db.getpwnam
    ELSE IF nss.call.fn = "getpwuid_r" THEN nss.db.getpwuid ELSE nss.db.getgrnam
ServedKey == IF nss.call.fn = "getpwuid_r" THEN to_string(nss.call.uid) ELSE nss.call.name

\* The line the daemon holds for the call.
ServedLine == ServedMap[ServedKey]

\* A call in a run without faults for an entry the daemon holds and the
\* adapter decodes, answered by one lookup.
ServedCall ==
    /\ Finished /\ ~nss.faulty /\ ~nss.fellback
    /\ ServedKey \in DOMAIN ServedMap
    /\ ServedLine \in {BobLine, BobStale, AlLine, GrpLine}

NeededBytes ==
    IF nss.call.fn = "getgrnam_r" THEN NeededGroup(ServedLine) ELSE NeededPasswd(ServedLine)

ReadBack == IF nss.call.fn = "getgrnam_r" THEN GroupLine(nss.gr) ELSE PasswdLine(nss.pw)

\* C19: a buffer of exactly the bytes the record needs (the first slot, the
\* strings with their NULs, the array of pointers) is accepted and filled,
\* a buffer one byte shorter is refused with ERANGE.
C19_ExactBufferAccepted ==
    (ServedCall /\ NeededBytes >= BUFFER_MIN_LEN) =>
        /\ nss.call.buflen = NeededBytes =>
              (nss.status = "Success" /\ ReadBack = ServedLine)
        /\ nss.call.buflen = NeededBytes - 1 =>
              (nss.status = "TryAgain" /\ nss.errno = "ERANGE")

\* The record as Passwd::reset or Group::reset leaves it, or as the caller
\* handed it in.
RecordCleared ==
    IF nss.call.fn = "getgrnam_r"
    THEN nss.gr.grp \in {Group_reset(nss.gr).grp, CallerGroup}
    ELSE nss.pw.pwd \in {Passwd_reset(nss.pw).pwd, CallerPasswd}

\* C20: when the buffer is too small for the reply the entry point returns
\* TryAgain with errno ERANGE and the record is in its cleared state, no
\* field keeps a value of the reply.
C20_TooSmallLeavesCleared ==
    (Finished /\ nss.res = "InsufficientBuffer") =>
        /\ nss.status = "TryAgain" /\ nss.errno = "ERANGE"
        /\ RecordCleared

\* The members a group line names: the names between the commas of its
\* fourth field, none when the field is empty.
ReplyMembers(line) ==
    IF Len(split(line, ":")[4]) = 0 THEN <<>> ELSE split(split(line, ":")[4], ",")

\* getgrnam_r has accepted the reply of the daemon.
GroupAccepted ==
    /\ Finished /\ ~nss.faulty /\ nss.call.fn = "getgrnam_r"
    /\ ServedKey \in DOMAIN ServedMap /\ nss.status = "Success"

\* C21: for an accepted group reply gr_mem points to an array with one
\* non-null pointer per member of the reply, in order, each at the name of
\* that member, and a NULL after them; for every number of members, none
\* too.
C21_MembersArray ==
    GroupAccepted =>
        /\ nss.gr.grp.gr_mem = nss.gr.buffer.apos
        /\ Len(nss.gr.buffer.array) = Len(ReplyMembers(ServedLine)) + 1
        /\ \A i \in 1..Len(ReplyMembers(ServedLine)) :
              /\ nss.gr.buffer.array[i] # -1
              /\ CStr(nss.gr.buffer.bytes, nss.gr.buffer.array[i]) = ReplyMembers(ServedLine)[i]
        /\ nss.gr.buffer.array[Len(nss.gr.buffer.array)] = -1

\* The pointers of the string fields of the record in the order of the
\* setter calls, and the strings the setters were given.
StringPointers ==
    IF nss.call.fn = "getgrnam_r" THEN <<nss.gr.grp.gr_name, nss.gr.grp.gr_passwd>>
    ELSE <<nss.pw.pwd.pw_name, nss.pw.pwd.pw_passwd, nss.pw.pwd.pw_gecos,
           nss.pw.pwd.pw_dir, nss.pw.pwd.pw_shell>>

StringsGiven ==
    LET f == split(ServedLine, ":")
    IN  IF nss.call.fn = "getgrnam_r" THEN <<f[1], f[2]>> ELSE <<f[1], f[2], f[5], f[6], f[7]>>

TheBuffer == IF nss.call.fn = "getgrnam_r" THEN nss.gr.buffer ELSE nss.pw.buffer

\* The strings whose pointer was set lie one after the other from pos on,
\* each with its NUL, below the end of the buffer.
RECURSIVE LaidOut(_, _, _, _)
LaidOut(bytes, ptrs, strings, pos) ==
    IF Len(ptrs) = 0 THEN TRUE
    ELSE IF Head(ptrs) = 0 THEN LaidOut(bytes, Tail(ptrs), Tail(strings), pos)
    ELSE /\ Head(ptrs) = pos
         /\ pos + Len(Head(strings)) + 1 <= Len(bytes)
         /\ SubSeq(bytes, pos + 1, pos + Len(Head(strings))) = Head(strings)
         /\ bytes[pos + Len(Head(strings)) + 1] = NUL
         /\ LaidOut(bytes, Tail(ptrs), Tail(strings), pos + Len(Head(strings)) + 1)

\* The setters of a call were run on the reply of the daemon.
SettersRan ==
    /\ Finished /\ ~nss.faulty /\ ~nss.fellback
    /\ ServedKey \in DOMAIN ServedMap
    /\ nss.res \in {"Ok", "InsufficientBuffer"} /\ nss.phase # "new"

\* C22: after the setter calls that succeeded on a fresh buffer of at least
\* 24 bytes the strings lie in the buffer from offset 8 on in the order of
\* the calls, each followed by one NUL; nothing is written at or beyond
\* buflen; each pointer field points at the first byte of its string.
C22_StringsLaidOut ==
    SettersRan =>
        /\ Len(TheBuffer.bytes) = TheBuffer.buflen /\ TheBuffer.buflen >= BUFFER_MIN_LEN
        /\ TheBuffer.bufpos <= TheBuffer.buflen
        /\ \A i \in 1..BUFFER_START : TheBuffer.bytes[i] = NUL
        /\ LaidOut(TheBuffer.bytes, StringPointers, StringsGiven, BUFFER_START)

\* Five strings were set, the last one ends one byte before the end.
C22_Witness ==
    /\ SettersRan /\ nss.call.fn = "getpwnam_r" /\ nss.status = "Success"
    /\ nss.pw.pwd.pw_shell = nss.call.buflen - 1 - Len(StringsGiven[5]) - 1

\* initgroups has returned Success after storing gids.
InitgroupsDone == nss.stage = "ig_done"
InitgroupsStoredGids == InitgroupsDone /\ nss.out.status = "Success" /\ Len(nss.out.stored) > 0

\* C23: initgroups with a positive limit never stores a gid at an index >=
\* limit and never leaves start greater than limit, whatever start and size
\* the caller passes (an array already filled up to limit included) and
\* however long the reply; the skip gid is never stored.
C23_LimitRespected ==
    (InitgroupsDone /\ nss.a.limit > 0) =>
        /\ \A i \in 1..Len(nss.out.stored) :
              /\ nss.out.stored[i].at < nss.a.limit
              /\ nss.out.stored[i].gid # nss.a.skipgid
        /\ nss.out.start <= nss.a.limit

\* The array was full up to the limit and a gid was stored all the same.
C23_StoredBeyondLimit ==
    ~(/\ InitgroupsStoredGids
      /\ nss.a.limit > 0
      /\ nss.a.start = nss.a.limit
      /\ nss.out.start > nss.a.limit
      /\ Len(nss.out.behind) > 0)

\* The gids of the reply that are not the skip gid.
IgUserGids == FilterSkip(nss.got.gids, nss.a.skipgid)
IgGrows == /\ InitgroupsDone /\ nss.got.ok /\ nss.a.limit = 0 /\ Len(IgUserGids) > 0
           /\ nss.a.start + Len(IgUserGids) > nss.a.size

\* C24: with limit = 0 and n gids (the skip gid left out) that do not fit,
\* the array is reallocated to hold at least start + n gids, the gids are
\* stored at start .. start + n - 1 in the order of the reply, start becomes
\* start + n, and size afterwards is the capacity of the array in gids, no
\* more than was allocated.
C24_Growth ==
    IgGrows =>
        /\ Len(nss.out.array) >= nss.a.start + Len(IgUserGids)
        /\ \A i \in 1..Len(IgUserGids) : nss.out.array[nss.a.start + i] = IgUserGids[i]
        /\ nss.out.start = nss.a.start + Len(IgUserGids)
        /\ nss.out.size <= Len(nss.out.array)

\* After growing, size is the number of bytes of the array.
C24_SizeInBytes ==
    ~(IgGrows /\ nss.out.size = GID_SIZE * Len(nss.out.array)
              /\ nss.out.size > Len(nss.out.array))

\* The request of a finished map lookup got as far as the lookup in the
\* file of the map, with this result.
MapDone == codec.stage = "map_done"
MapLookedUp ==
    /\ MapDone
    /\ find_domain(codec.cfg, codec.domain)
    /\ Len(codec.query) > 0
    /\ find_allowed_map(codec.cfg, codec.domain, codec.map, codec.query[1].name)
    /\ codec.cfg.map_[codec.map].map_type = "gdbm"
MapLookup == lookup_gdbm_map(codec.cfg.map_[codec.map], codec.query[1].val)

\* C25: a map lookup for an unknown domain is answered 404, for a map the
\* domain may not use 404, for a key or a map file that is not there 404,
\* for a stored value that cannot be turned into JSON (wrong number of
\* fields, uid or gid no number, no JSON text, no format) 500, and for an
\* entry found 200 with the entry.
C25_StatusMapping ==
    MapDone =>
        /\ ~find_domain(codec.cfg, codec.domain) => codec.reply.status = 404
        /\ (/\ find_domain(codec.cfg, codec.domain)
            /\ Len(codec.query) > 0
            /\ ~find_allowed_map(codec.cfg, codec.domain, codec.map, codec.query[1].name))
              => codec.reply.status = 404
        /\ MapLookedUp =>
              /\ MapLookup.err \in {"KeyNotFound", "MapNotFound"} => codec.reply.status = 404
              /\ MapLookup.err \in {"DeserializeData", "SerializeJson", "UnknownFormat"}
                    => codec.reply.status = 500
              /\ MapLookup.ok => /\ codec.reply.status = 200
                                 /\ codec.reply.doc = json_result(MapLookup.json)

\* The address lies in the net.
InNet(ip, net) ==
    /\ ip.fam = net.fam
    /\ ip.addr \div 2^(AddrBits - net.prefix_len) = net.addr \div 2^(AddrBits - net.prefix_len)

\* C26: after any adds and finalize, contains(ip) is true exactly when ip
\* lies in one of the subnets added, nested and overlapping subnets and
\* mixed prefix lengths included.
C26_Membership ==
    codec.stage = "ip_asked" =>
        (codec.res <=> \E net \in codec.added : InNet(codec.ip, net))

\* contains never says yes for an address outside every subnet added.
C26_NoFalseYes ==
    codec.stage = "ip_asked" =>
        (codec.res => \E net \in codec.added : InNet(codec.ip, net))

\* The check of a request is done; the words of its header; the credential
\* is the second word, taken as it is or decoded from base64.
AuthChecked == codec.stage = "authz_done"
AuthWords == IF codec.authz.some THEN split_whitespace(codec.authz.s) ELSE <<>>
SchemaGiven == Len(AuthWords) >= 1 /\ AuthWords[1] = codec.domain.http_authschema.s
CredentialGiven == SchemaGiven /\ Len(AuthWords) >= 2
IsBase64Domain ==
    codec.domain.http_authencoding.some /\ codec.domain.http_authencoding.s = B64Name
CredentialMatches ==
    /\ CredentialGiven
    /\ codec.domain.http_authtoken.some
    /\ IF IsBase64Domain
       THEN /\ base64_decode(AuthWords[2]).ok
            /\ from_utf8_ok(base64_decode(AuthWords[2]).bytes)
            /\ base64_decode(AuthWords[2]).bytes = codec.domain.http_authtoken.s
       ELSE AuthWords[2] = codec.domain.http_authtoken.s

\* The answers of the claim for a domain with a schema.
AuthAsClaimed ==
    /\ codec.res = "AuthOk" <=> CredentialMatches
    /\ (~codec.authz.some \/ ~SchemaGiven) => codec.res = "NoAuth"
    /\ (CredentialGiven /\ ~CredentialMatches) => codec.res = "BadAuth"

\* C27 as stated: for a domain with a schema access is granted exactly when
\* the header has the schema as its first word and a credential that,
\* decoded from base64 when that is the encoding, equals the token; a
\* missing header or another schema is missing credentials, another
\* credential is bad credentials; a domain without schema grants access.
C27_AsStated ==
    AuthChecked =>
        IF codec.domain.http_authschema.some THEN AuthAsClaimed
        ELSE codec.res = "AuthOk"

\* C27: as stated for a domain with a schema, a token and the encoding
\* base64 or none; a domain with a schema and no token answers bad
\* credentials to every request; a domain with another encoding answers
\* missing credentials to a missing header or another schema and bad
\* credentials to every credential; a domain without schema grants access.
C27_HttpAuth ==
    AuthChecked =>
        IF ~codec.domain.http_authschema.some THEN codec.res = "AuthOk"
        ELSE IF ~codec.domain.http_authtoken.some THEN codec.res = "BadAuth"
        ELSE IF codec.domain.http_authencoding.some /\ ~IsBase64Domain
             THEN /\ (~codec.authz.some \/ ~SchemaGiven) => codec.res = "NoAuth"
                  /\ CredentialGiven => codec.res = "BadAuth"
        ELSE AuthAsClaimed

\* The header the daemon builds for a base64 domain is accepted.
C27_Witness ==
    /\ AuthChecked
    /\ codec.domain.http_authschema.some
    /\ codec.domain.http_authtoken.some
    /\ IsBase64Domain
    /\ codec.authz = Some(ClientAuthorization(codec.domain.http_authschema.s,
                                              codec.domain.http_authtoken.s,
                                              codec.domain.http_authencoding))
    /\ AuthWords[2] # codec.domain.http_authtoken.s
    /\ codec.res = "AuthOk"

\* The routes of the matcher whose pattern matches the decoded path of the
\* request and whose method list has the method of the request.
RouteRequested == codec.stage = "route_done"
RequestPath == percent_decode_utf8(codec.request.path)
RoutesFor ==
    {i \in 1..Len(codec.matcher.routes) :
        /\ RequestPath.some
        /\ RouteCaptures(codec.matcher.routes[i].pat, RequestPath.s).hit
        /\ codec.matcher.routes[i].methods.some
        /\ codec.request.method \in codec.matcher.routes[i].methods.list}

\* The parameters of the query: the parts between the ampersands, key and
\* value around the equals sign, percent-decoded.
QueryPairs ==
    IF ~codec.request.query.some THEN {}
    ELSE {<<percent_decode(splitn(p, 2, "=")[1]), percent_decode(splitn(p, 2, "=")[2])>> :
             p \in {split(codec.request.query.s, "&")[i] :
                       i \in 1..Len(split(codec.request.query.s, "&"))}}

\* C28: a request whose percent-decoded path matches a route pattern and
\* whose method is in the method list of that route is matched: match_req
\* gives the label of the route, the parameters of the path the pattern
\* captures, the parameters of the query and the decoded path; a parameter
\* that is not there is None.
C28_RouteMatch ==
    (RouteRequested /\ RoutesFor # {}) =>
        /\ codec.m.ok
        /\ \E i \in RoutesFor :
              /\ codec.m.label = codec.matcher.routes[i].label
              /\ codec.m.caps = RouteCaptures(codec.matcher.routes[i].pat, RequestPath.s).caps
        /\ codec.m.path = RequestPath.s
        /\ \A kv \in QueryPairs : query_param(codec.m, kv[1]) = Some(kv[2])
        /\ query_param(codec.m, <<"w">>) = None
        /\ route_param(codec.m, <<"w">>) = None

\* C29: the timeout of 10 seconds of a session is a timeout of inactivity:
\* a session that the client keeps open and that has been idle for more
\* than 10 seconds has been aborted, and a session is not aborted while its
\* requests come less than 10 seconds apart.
C29_InactivityTimeout ==
    codec.stage = "session" =>
        /\ (~codec.eof /\ codec.now - codec.last > SESSION_TIMEOUT_S) => codec.aborted
        /\ codec.spaced => ~codec.aborted

\* A session whose requests came less than 10 seconds apart is aborted.
C29_BusySessionAborted ==
    ~(codec.stage = "session" /\ codec.aborted /\ codec.spaced /\ codec.nreq > 1)

\* The latest attempt of session s got a complete reply of a status that
\* is not 2xx, 401, 403 or 404, while the session is open and has tries left.
OtherStatus(s) ==
    /\ Got(s, hist[s].reply.status)
    /\ ~(hist[s].reply.status >= 200 /\ hist[s].reply.status <= 299)
    /\ hist[s].reply.status \notin {401, 403, 404}
    /\ ~eof[s]
    /\ req[s].try_no < MAX_TRIES

\* The request of session s is to be retried, and the retry contacts the
\* server after the one of the attempt that failed.
RetriesOnNext(s) ==
    /\ pc[s] = "retry"
    /\ ServerOf(config, GetClient(http_client).seqno)
          = (ServerOf(config, req[s].seqno) + 1) % config.nservers

FailedFirst(t, s) ==
    /\ s # t
    /\ pc[t] = "retry" /\ pc[s] = "inflight"
    /\ req[s].seqno = req[t].seqno

\* Both sessions have failed on the same seqno and wait for their retry.
BothFailed(s, t) ==
    /\ s # t
    /\ pc[s] = "retry" /\ pc[t] = "retry"
    /\ req[s].seqno = req[t].seqno

\* C31: when the attempts of two sessions on the same seqno fail, only the
\* first session to take the mutex changes the pool, the later one leaves it
\* as it is.
C31_OnlyFirstMutates ==
    [][\A s \in Sessions, t \in Sessions :
          (FailedFirst(t, s) /\ pc'[s] = "retry") => http_client' = http_client]_vars

\* C31: the failures of two sessions on one seqno move the server that the
\* retries contact forward by one position, not more.
C31_OnePosition ==
    \A s \in Sessions, t \in Sessions :
        BothFailed(s, t) => GetClient(http_client).seqno <= req[s].seqno + 1

(***************************************************************************)
(* C32.  The shared pool under any interleaving of the sessions.           *)
(***************************************************************************)
\* request.rs process, the Cmd::Servers branch: the active server of a pool,
\* None (-1) or the index of a server.
ActiveServer(pool) == ServersReply(config, pool).data[1]

\* seqno stays or goes up by one.
SeqnoStep == http_client'.seqno \in {http_client.seqno, http_client.seqno + 1}

\* Session s starts an attempt in this step.
StartsAttempt(s) == pc[s] # "inflight" /\ pc'[s] = "inflight"

\* The attempt that s starts has read the seqno the pool has after the
\* critical section, the pool has a client then, and the one server the
\* attempt contacts is servers[seqno mod N].
AttemptOnServerOfSeqno(s) ==
    /\ http_client'.client
    /\ req'[s].seqno = http_client'.seqno
    /\ \A i \in Servers :
          hist'[s].contacted[i]
              = (IF pc[s] = "idle" THEN 0 ELSE hist[s].contacted[i])
                + (IF i = req'[s].seqno % config.nservers THEN 1 ELSE 0)

\* C32: in every reachable state of the pool, whatever the interleaving of
\* the sessions, the active server is None exactly when there is no client;
\* in every step seqno stays or goes up by one, and every attempt contacts
\* servers[seqno mod N] of the seqno it read under the mutex.
C32_PoolInvariant ==
    /\ [](ActiveServer(http_client) = -1 <=> ~http_client.client)
    /\ [](~http_client.client \/ ActiveServer(http_client) = http_client.seqno % config.nservers)
    /\ [][/\ SeqnoStep
          /\ \A s \in Observed : StartsAttempt(s) => AttemptOnServerOfSeqno(s)]_vars

\* C32, its case: two sessions use the pool, one waits for its retry after a
\* connection error took the client away, the other has an attempt in
\* flight, and seqno has gone round the servers.
C32_Witness ==
    /\ env = "sessions"
    /\ ~http_client.client /\ http_client.seqno > config.nservers
    /\ pc[1] = "inflight" /\ pc[2] = "retry"
    /\ hist[1].attempts > 1

(***************************************************************************)
(* C33.  Strict reshaping of the replies.                                  *)
(***************************************************************************)
\* The value is a JSON object with exactly these fields.
ExactFields(v, names) ==
    v.t = "obj" /\ DOMAIN v.o = {names[i] : i \in 1..Len(names)}

\* The value has exactly the shape of the record kind that the command asks
\* for.
ShapeOf(cmd, v) ==
    IF cmd \in {"GetPwNam", "GetPwUid"} THEN ExactFields(v, PasswdFields) /\ IsPasswd(v)
    ELSE IF cmd \in {"GetGrNam", "GetGrGid"} THEN ExactFields(v, GroupFields) /\ IsGroup(v)
    ELSE IF cmd = "GetGidList" THEN ExactFields(v, GidlistFields) /\ IsGidlist(v)
    ELSE ExactFields(v, <<>>)

\* The request of session s is answered with a 2xx line made from the reply
\* to an HTTPS attempt.
SuccessLine(s) ==
    /\ Alone /\ pc[s] = "respond" /\ hist[s].attempts > 0
    /\ resp[s].code >= 200 /\ resp[s].code <= 299

\* C33: the daemon emits a 2xx line only for a reply whose result has exactly
\* the shape of the record kind the command asks for.
C33_StrictReshaping ==
    \A s \in Observed :
        SuccessLine(s) =>
            /\ ExactFields(hist[s].reply.body, <<"result">>)
            /\ ShapeOf(parse(Lines[req[s].line]).cmd, hist[s].reply.body.o.result)

(***************************************************************************)
(* C34.  The key of a map lookup.                                          *)
(***************************************************************************)
\* The request of a finished map lookup is the one the daemon sends:
\* ?{keyname}={keyvalue}&cred_uid={peer_uid}
DaemonQuery ==
    /\ MapDone
    /\ Len(codec.url) = 2 /\ codec.url[2] = CredUidParam

\* C34: for the daemon's request the key used is the first parameter of the
\* URL, ({keyname}, {keyvalue}), so that the reply is the one to a request
\* with that parameter alone, whatever follows it.
C34_FirstParameter ==
    DaemonQuery =>
        /\ codec.query[1] = codec.url[1]
        /\ codec.reply = handle_map(codec.cfg, codec.domain, codec.map, <<codec.url[1]>>)

(***************************************************************************)
(* C35, C36, C39.  The cache of gdbm handles.                              *)
(***************************************************************************)
CacheWindowMs == CACHE_SECS * 1000

\* Thread t has finished a lookup.
LookedUp(t) == codec.stage = "db" /\ codec.wpc[t] = "idle" /\ codec.res[t].kind # "none"

\* The lookup of thread t found a handle whose last check was more than the
\* window ago.
CheckWasDue(t) == LookedUp(t) /\ ~codec.res[t].reaped /\ codec.res[t].age > CacheWindowMs

\* C35: a lookup that finds a handle whose last mtime check is more than 5 s
\* old rechecks the mtime before it uses the handle; after a mismatch the
\* lookup is answered from a freshly opened file; no lookup is answered from
\* a handle of a file that changed more than 5 s before.
C35_HandleFreshness ==
    \A t \in Workers :
        /\ CheckWasDue(t) => codec.res[t].rechecked
        /\ (CheckWasDue(t) /\ codec.res[t].rechecked /\ codec.res[t].kind # "cached")
              => codec.res[t].kind = "fresh"
        /\ (LookedUp(t) /\ codec.res[t].kind = "cached")
              => ~(codec.res[t].behind > CacheWindowMs)

\* The timer finishes a tick in this step.
TickEnds == codec.stage = "db" /\ codec.tpc = "scan" /\ codec'.tpc = "idle"

\* C36: a handle that has not been used for more than 5 s is closed by the
\* first or the second tick that finds it so, whichever thread opened it;
\* after every tick the global list holds only entries of handles that are
\* open; a lookup that finds its handle reaped opens the file again and
\* succeeds.
C36_IdleReaped ==
    /\ [](codec.stage = "db" => \A i \in 1..MaxHandles : codec.h[i].survived <= 1)
    /\ [](\A t \in Workers :
            (LookedUp(t) /\ codec.res[t].reaped /\ codec.file.exists)
                => codec.res[t].kind = "fresh")
    /\ [][TickEnds => \A j \in 1..Len(codec'.global) : codec'.h[codec'.global[j]].open]_vars

\* The threads of the server: the workers and the timer.
DbThreads == Workers \cup {Timer}

\* The mutex that thread x waits for is held by thread y.
WaitsFor(x, y) ==
    /\ codec.stage = "db" /\ x # y
    /\ \/ /\ x \in Workers /\ codec.wpc[x] = "lock" /\ codec.h[codec.m[x]].holder = y
       \/ /\ x \in Workers /\ codec.wpc[x] = "push" /\ codec.glock = y
       \/ /\ x = Timer /\ codec.tpc = "entry" /\ codec.h[codec.tref].holder = y

\* Thread x waits, directly or through other waiting threads, for z.
WaitsForChain(x, z) ==
    \/ WaitsFor(x, z)
    \/ \E y \in DbThreads : WaitsFor(x, y) /\ WaitsFor(y, z)
    \/ \E y1 \in DbThreads, y2 \in DbThreads :
          WaitsFor(x, y1) /\ WaitsFor(y1, y2) /\ WaitsFor(y2, z)

\* Thread t is fetching from its handle.
Fetching(t) == codec.stage = "db" /\ codec.wpc[t] = "fetch"

\* C39: the timer and the lookups never wait for each other's mutexes in a
\* circle, and the handle a lookup is fetching from is open and its mutex
\* held by that lookup.
C39_NoDeadlockNoClose ==
    /\ \A x \in DbThreads : ~WaitsForChain(x, x)
    /\ \A t \in Workers :
          Fetching(t) => /\ codec.h[codec.m[t]].open
                         /\ codec.h[codec.m[t]].holder = t

\* C39, its case: the timer, which holds the mutex of the list, waits at an
\* entry for the lookup that is fetching from that handle.
C39_Witness ==
    \E t \in Workers :
        /\ Fetching(t) /\ WaitsFor(Timer, t)
        /\ codec.glock = Timer

(***************************************************************************)
(* C37.  Every request line is answered.                                   *)
(***************************************************************************)
\* A step of the task of session s: a decision of process, the end of an
\* HTTPS attempt (every attempt completes or hits its timeout), the retry or
\* the write of the response line.
Processing(s) ==
    \/ ProcessReply(s) \/ ProcessPanic(s) \/ ProcessRequest(s)
    \/ \E o \in Replies : AttemptBody(s, o) \/ AttemptError(s, o) \/ AttemptRetry(s, o)
    \/ Retry(s)
    \/ WriteResponse(s)

\* The daemon with a runtime that runs the task of a session whenever it can
\* go on.
SpecLive == Spec /\ \A s \in Sessions : WF_vars(Processing(s))

\* C37: every request line that a session has read is answered in the end:
\* the retries come to an end whatever the servers answer, the task does not
\* panic and the session does not get stuck, for every verb.
C37_EveryLineAnswered ==
    \A s \in Sessions : \A k \in 1..MaxReqs :
        (nread[s] >= k) ~> (Len(out[s]) >= k)

(***************************************************************************)
(* C38.  Request lines that do not parse.                                  *)
(***************************************************************************)
\* A decimal number that fits a u32, with the sign str::parse allows.
IsNumber(a) ==
    LET d == IF Len(a) > 0 /\ a[1] = "+" THEN Tail(a) ELSE a
    IN  Len(d) > 0 /\ (\A i \in 1..Len(d) : IsDigit(d[i])) /\ FitsU32(d)

\* Line l does not parse: an unknown verb, a wrong number of arguments for
\* the verb, or an argument of getpwuid / getgrgid that is no number.
Unparsable(l) ==
    LET parts == splitn(Lines[l], SPLITN_PARTS, " ")
        v == VerbTable(tolower(parts[1]))
        nargs == Len(parts) - 1
    IN  \/ v.cmd = ""
        \/ nargs < v.argsmin \/ nargs > v.argsmax
        \/ v.cmd \in {"GetPwUid", "GetGrGid"} /\ ~IsNumber(parts[2])

\* Session s takes the line at the head of its channel in this step.
TakesLine(s) == HasLine(s) /\ chan'[s] = Tail(chan[s])

\* The step gives the 400 response, starts no attempt, leaves the pool and
\* the reader alone and keeps the lines that follow in the channel.
Answers400(s) ==
    /\ pc'[s] = "respond" /\ resp'[s].code = 400
    /\ http_client' = http_client
    /\ hist'[s].attempts = 0 /\ \A i \in Servers : hist'[s].contacted[i] = 0
    /\ eof' = eof /\ reader' = reader

\* The response to a line that does not parse is written and the session
\* waits for its next line; the lines in the channel stay.
GoesOn(s) ==
    /\ pc'[s] = "idle" /\ out'[s] = Append(out[s], req[s].k)
    /\ chan'[s] = chan[s] /\ http_client' = http_client /\ eof' = eof

\* C38: a line that does not parse is answered with a 400 line without an
\* HTTPS attempt and without a change to the shared pool, and the session
\* goes on: the response is written, the session is idle again and the
\* lines behind it are still in the channel to be taken.
C38_ParseErrorAnswered ==
    /\ [](\A s \in Observed :
             pc[s] \in {"inflight", "retry", "panicked"} => ~Unparsable(req[s].line))
    /\ [][\A s \in Observed :
             /\ (TakesLine(s) /\ Unparsable(ChanRecv(chan[s]).line)) => Answers400(s)
             /\ (pc[s] = "respond" /\ Unparsable(req[s].line) /\ pc'[s] # pc[s])
                    => GoesOn(s)]_vars

\* C38, its case: a first line that does not parse has its 400 response,
\* no attempt was made, the pool is as the request found it, and a line that
\* parses is behind it in the channel.
C38_Witness ==
    /\ env = "lines"
    /\ pc[1] = "respond" /\ req[1].k = 1 /\ Unparsable(req[1].line)
    /\ resp[1].code = 400 /\ hist[1].attempts = 0
    /\ http_client.seqno = hist[1].seq0 /\ http_client.client = hist[1].cl0
    /\ chan[1] # <<>> /\ ChanRecv(chan[1]) # EofItem
    /\ ~Unparsable(ChanRecv(chan[1]).line)

(***************************************************************************)
(* C40.  The uid of the record getpwuid_r fills.                           *)
(***************************************************************************)
\* getpwuid_r has returned Success.
GetpwuidSucceeded == Finished /\ nss.call.fn = "getpwuid_r" /\ nss.status = "Success"

\* C40: whenever getpwuid_r(uid) returns Success the record it filled has
\* pw_uid equal to the uid asked for, whether the lookup by uid or the
\* lookup by the remembered name filled it.
C40_UidOfRecord == GetpwuidSucceeded => nss.pw.pwd.pw_uid = nss.call.uid

====
